---------------------------- MODULE Spec2Model ----------------------------
(***************************************************************************)
(* A model of fast-osm-raster-render: tile addressing (data/types.rs), the *)
(* binary object store (data/serialization.rs, data/mmap.rs), the spatial  *)
(* index (data/spatial.rs), ingestion (data/loader.rs) and the tile        *)
(* request path (server/handlers.rs, renderer/renderer.rs).                *)
(*                                                                         *)
(* Each subsystem has its own specification over the one set of variables; *)
(* a specification leaves the variables of the other subsystems at their   *)
(* initial values.                                                         *)
(***************************************************************************)
EXTENDS Integers, Sequences, FiniteSets, TLC

VARIABLES
    \* build profile: TRUE when integer overflow checks are compiled in
    overflow_checks,
    \* tile addressing: two input tiles and the results of Tile::index on them
    tile, tile2, idx, idx2,
    \* object store: the bytes of the file, the stream position of the open
    \* handle, the write_map_object calls made so far, the result of the last
    \* read, and the bytes seen by the memory mapping (NotMapped before)
    file, pos, calls, ret, mapped,
    \* spatial index: TileIndex.tiles, TileIndex.max_points, the insert calls
    \* made so far, the result of the last get and the arguments of the
    \* update_max_points calls made so far
    tiles, max_points, inserted, lookup, updates,
    \* ingestion: the ways load_osm_data has processed, with their outcome
    ways,
    \* tile requests: each worker thread's two renderer slots, the response
    \* to the last request, the number of requests handled, the last request
    \* (the thread it ran on and its path) and the renderers constructed so far
    slots, response, served, request, constructed,
    \* one call of a function of data/types.rs: its name, arguments and result
    calc,
    \* one VulkanRenderer instance: its phase, its fields, the number of
    \* render_tile calls made on it and the last call with the GPU calls it made
    gpu

tileVars == <<tile, tile2, idx, idx2>>
storeVars == <<file, pos, calls, ret, mapped>>
indexVars == <<tiles, max_points, inserted, lookup, updates>>
ingestVars == <<ways>>
serveVars == <<slots, response, served, request, constructed>>
calcVars == <<calc>>
gpuVars == <<gpu>>
vars ==
    <<overflow_checks, tileVars, storeVars, indexVars, ingestVars, serveVars, calcVars,
      gpuVars>>

\* what each subsystem's actions leave alone
tileOthers ==
    <<overflow_checks, storeVars, indexVars, ingestVars, serveVars, calcVars, gpuVars>>
storeOthers ==
    <<overflow_checks, tileVars, indexVars, ingestVars, serveVars, calcVars, gpuVars>>
indexOthers ==
    <<overflow_checks, tileVars, storeVars, ingestVars, serveVars, calcVars, gpuVars>>
ingestOthers ==
    <<overflow_checks, tileVars, serveVars, calcVars, gpuVars>>
serveOthers ==
    <<overflow_checks, tileVars, storeVars, indexVars, ingestVars, calcVars, gpuVars>>
calcOthers == <<tileVars, storeVars, indexVars, ingestVars, serveVars, gpuVars>>
gpuOthers ==
    <<overflow_checks, tileVars, storeVars, indexVars, ingestVars, serveVars, calcVars>>

(***************************************************************************)
(* Machine integers.  TLC's integers are 32-bit signed, so u32 and u64     *)
(* values are little-endian sequences of 16-bit limbs (2 limbs for u32, 4  *)
(* for u64).  Every operation reports both the wrapped result and whether  *)
(* the exact result left the width.                                        *)
(***************************************************************************)
LimbBits == 2 * 8
LimbBase == 2^LimbBits
U32Limbs == 32 \div LimbBits
U64Limbs == 64 \div LimbBits
\* wide enough for the exact value of every index the model computes
WideLimbs == 96 \div LimbBits

Zero(k) == [i \in 1..k |-> 0]

\* the k-limb representation of a natural number below 2^31
ToLimbs(n, k) ==
    [i \in 1..k |-> IF i = 1 THEN n % LimbBase
                    ELSE IF i = 2 THEN n \div LimbBase
                    ELSE 0]

\* zero-extension (or truncation) of a limb sequence to k limbs
Extend(a, k) == [i \in 1..k |-> IF i <= Len(a) THEN a[i] ELSE 0]

RECURSIVE CarryOut(_, _, _)
\* the carry out of limb i when adding a and b
CarryOut(a, b, i) ==
    IF i = 0 THEN 0 ELSE (a[i] + b[i] + CarryOut(a, b, i - 1)) \div LimbBase

\* wrapping addition of two numbers of the same width
AddWrap(a, b) ==
    [i \in 1..Len(a) |-> (a[i] + b[i] + CarryOut(a, b, i - 1)) % LimbBase]

AddOverflows(a, b) == CarryOut(a, b, Len(a)) = 1

\* (a * 2^s) wrapped to the width of a
ShlWrap(a, s) ==
    LET k == Len(a)
        q == s \div LimbBits
        r == s % LimbBits
        lo(j) == IF j >= 1 /\ j <= k THEN (a[j] * 2^r) % LimbBase ELSE 0
        hi(j) == IF j >= 1 /\ j <= k THEN (a[j] * 2^r) \div LimbBase ELSE 0
    IN  [i \in 1..k |-> lo(i - q) + hi(i - q - 1)]

\* a * 2^s does not fit the width of a
ShlOverflows(a, s) ==
    LET k == Len(a)
        q == s \div LimbBits
        r == s % LimbBits
    IN  \E j \in 1..k :
            /\ a[j] # 0
            /\ \/ j + q > k
               \/ j + q = k /\ (a[j] * 2^r) \div LimbBase > 0

RECURSIVE LessFrom(_, _, _)
LessFrom(a, b, i) ==
    IF i = 0 THEN FALSE
    ELSE IF a[i] # b[i] THEN a[i] < b[i]
    ELSE LessFrom(a, b, i - 1)

\* a < b for two numbers of the same width
Less(a, b) == LessFrom(a, b, Len(a))

(***************************************************************************)
(* Tile addressing (data/types.rs).                                        *)
(***************************************************************************)
Tile(x, y, z) == [x |-> x, y |-> y, z |-> z]

Panic == [ok |-> FALSE]
Ok(v) == [ok |-> TRUE, val |-> v]
NoResult == [ok |-> FALSE, pending |-> TRUE]

\* 4u64.pow(k): wrapped value and overflow
Pow4_u64(k) == ShlWrap(ToLimbs(1, U64Limbs), 2 * k)
Pow4_u64_overflows(k) == ShlOverflows(ToLimbs(1, U64Limbs), 2 * k)

RECURSIVE TotalLoop(_, _)
\* the loop `for z in 0..self.z { total += 4u64.pow(z) }`, k iterations done
\* first; the result is [val, ovf]
TotalLoop(k, n) ==
    IF k = 0 THEN [val |-> Zero(U64Limbs), ovf |-> FALSE]
    ELSE CHOOSE total \in
             { [val |-> AddWrap(prev.val, term),
                ovf |-> \/ prev.ovf
                        \/ Pow4_u64_overflows(k - 1)
                        \/ AddOverflows(prev.val, term)] :
                 prev \in {TotalLoop(k - 1, n)}, term \in {Pow4_u64(k - 1)} } : TRUE

\* `self.y * 2u32.pow(self.z) + self.x` in u32
LevelPos(t) ==
    LET one  == ToLimbs(1, U32Limbs)
        y32  == ToLimbs(t.y, U32Limbs)
        x32  == ToLimbs(t.x, U32Limbs)
        prod == ShlWrap(y32, t.z)
    IN  [val |-> AddWrap(prod, x32),
         ovf |-> \/ ShlOverflows(one, t.z)
                 \/ ShlOverflows(y32, t.z)
                 \/ AddOverflows(prod, x32)]

\* the value of the loop for each zoom level up to 20, computed once
TotalLoopByZoom == [z \in 0..(4 * 5) |-> TotalLoop(z, z)]

\* the two parts of Tile::index, each computed once: [total, level]
IndexParts(t) ==
    CHOOSE parts \in
        { [total |-> tot, level |-> lp] :
            tot \in { IF t.z \in DOMAIN TotalLoopByZoom
                       THEN TotalLoopByZoom[t.z] ELSE TotalLoop(t.z, t.z) },
            lp \in {LevelPos(t)} } : TRUE

\* `total + level_pos as u64` with wrapping arithmetic (overflow checks off)
IndexWrapped(parts) ==
    AddWrap(parts.total.val, Extend(parts.level.val, U64Limbs))

\* some intermediate value of Tile::index leaves its machine width
IndexOverflows(parts) ==
    \/ parts.total.ovf
    \/ parts.level.ovf
    \/ AddOverflows(parts.total.val, Extend(parts.level.val, U64Limbs))

\* Tile::index under the build profile `checks`: an overflow panics when the
\* checks are compiled in and wraps otherwise
Tile_index(t, checks) ==
    CHOOSE r \in
        { IF checks /\ IndexOverflows(parts) THEN Panic ELSE Ok(IndexWrapped(parts)) :
            parts \in {IndexParts(t)} } : TRUE

(***************************************************************************)
(* The inputs of the tile-addressing specification: every valid tile of    *)
(* the zoom levels 0..MaxFullZoom, and corner and midpoint tiles of some   *)
(* higher zoom levels a request may carry.                                 *)
(***************************************************************************)
MaxFullZoom == 2
SampleZooms == {15, 16, 17, 20}

ValidTile(t) == t.x >= 0 /\ t.y >= 0 /\ t.x < 2^t.z /\ t.y < 2^t.z

FullTiles ==
    { Tile(x, y, z) : x \in 0..(2^MaxFullZoom - 1),
                      y \in 0..(2^MaxFullZoom - 1),
                      z \in 0..MaxFullZoom }

SampleCoords(z) == {0, 2^(z - 1), 2^z - 1}

SampleTiles ==
    UNION { { Tile(x, y, z) : x \in SampleCoords(z), y \in SampleCoords(z) }
            : z \in SampleZooms }

\* coordinates one past the last column or row: Tile::new checks nothing
InvalidTiles ==
    UNION { { Tile(2^z, 0, z), Tile(0, 2^z, z) } : z \in 0..MaxFullZoom }

TileInputs == { t \in FullTiles : ValidTile(t) } \cup SampleTiles \cup InvalidTiles

\* both tiles are indexed
ComputeIndex ==
    /\ idx = NoResult
    /\ idx' = Tile_index(tile, overflow_checks)
    /\ idx2' = Tile_index(tile2, overflow_checks)
    /\ UNCHANGED <<tile, tile2>>
    /\ UNCHANGED tileOthers

TileIdle ==
    /\ tile = Tile(0, 0, 0)
    /\ tile2 = Tile(0, 0, 0)
    /\ idx = NoResult
    /\ idx2 = NoResult

(***************************************************************************)
(* Binary object store (data/serialization.rs, data/mmap.rs).              *)
(*                                                                         *)
(* An f64 of the model is an integer n, |n| < 2^20, standing for the       *)
(* double n / 2^FracBits (Deg(d) is d.0); write_f64 and read_f64 go        *)
(* through its IEEE-754 little-endian bytes.  Bytes that decode to any     *)
(* other f64 read as OtherF64.                                             *)
(***************************************************************************)
BOUNDING_BOX_SIZE == 32
POINTS_LEN_SIZE == 8
POINT_SIZE == 16

Point(lon, lat) == [lon |-> lon, lat |-> lat]
BoundingBox(min, max) == [min |-> min, max |-> max]
MapObject(bounding_box, points) ==
    [bounding_box |-> bounding_box, points |-> points]

FracBits == 2 * 3
MantissaTop == 4 * 5
ExponentBias == 2^10 - 1
OtherF64 == 2^MantissaTop

Deg(d) == d * 2^FracBits

Log2(a) == CHOOSE e \in 0..(MantissaTop - 1) : 2^e <= a /\ a < 2^(e + 1)

\* write_f64::<LittleEndian>: the eight bytes of v (sign, 11 exponent bits
\* and the 20 leading fraction bits; the other 32 fraction bits are 0)
F64Bytes(v) ==
    IF v = 0 THEN <<0, 0, 0, 0, 0, 0, 0, 0>>
    ELSE LET s    == IF v < 0 THEN 1 ELSE 0
             a    == IF v < 0 THEN 0 - v ELSE v
             e    == Log2(a)
             frac == (a - 2^e) * 2^(MantissaTop - e)
             top  == s * 32768 + (ExponentBias + e - FracBits) * 16 + frac \div 65536
         IN  <<0, 0, 0, 0, frac % 256, (frac \div 256) % 256, top % 256, top \div 256>>

\* read_f64::<LittleEndian>: the value of eight bytes
F64FromBytes(b) ==
    LET top  == b[8] * 256 + b[7]
        s    == top \div 32768
        e    == (top % 32768) \div 16 - ExponentBias + FracBits
        frac == (top % 16) * 65536 + b[6] * 256 + b[5]
        low0 == \A i \in 1..4 : b[i] = 0
    IN  IF low0 /\ top = 0 /\ frac = 0 THEN 0
        ELSE IF /\ low0
                /\ e >= 0 /\ e < MantissaTop
                /\ frac % 2^(MantissaTop - e) = 0
             THEN (IF s = 1 THEN 0 - 1 ELSE 1)
                      * (2^e + frac \div 2^(MantissaTop - e))
        ELSE OtherF64

\* a writer that emits the length as four bytes
I64Bytes_as_i32(n) ==
    <<n % 256, (n \div 256) % 256, (n \div 65536) % 256, n \div 16777216>>

\* write_i64::<LittleEndian> of a length below 2^31
I64Bytes(n) ==
    <<n % 256, (n \div 256) % 256, (n \div 65536) % 256, n \div 16777216,
      0, 0, 0, 0>>

\* read_i64::<LittleEndian>; a negative value or one of 2^31 or more reads
\* as -1 (the model never allocates that many points)
I64FromBytes(b) ==
    IF (\A i \in 5..8 : b[i] = 0) /\ b[4] < 128
    THEN b[1] + 256 * b[2] + 65536 * b[3] + 16777216 * b[4]
    ELSE 0 - 1

RECURSIVE PointsBytes(_)
PointsBytes(ps) ==
    IF ps = <<>> THEN <<>>
    ELSE F64Bytes(Head(ps).lon) \o F64Bytes(Head(ps).lat) \o PointsBytes(Tail(ps))

\* the bytes write_map_object emits for obj, in order
ObjectBytes(obj) ==
    F64Bytes(obj.bounding_box.min.lon) \o F64Bytes(obj.bounding_box.min.lat)
        \o F64Bytes(obj.bounding_box.max.lon) \o F64Bytes(obj.bounding_box.max.lat)
        \o I64Bytes(Len(obj.points))
        \o PointsBytes(obj.points)

map_object_size(num_points) ==
    BOUNDING_BOX_SIZE + POINTS_LEN_SIZE + (num_points * POINT_SIZE)

IoErr == [ok |-> FALSE, err |-> "io"]

\* a writer that rewinds before it writes
WriteAt_from_start(f, p, bytes) ==
    [i \in 1..(IF p + Len(bytes) > Len(f) THEN p + Len(bytes) ELSE Len(f)) |->
        IF i <= Len(bytes) THEN bytes[i] ELSE IF i <= Len(f) THEN f[i] ELSE 0]

\* a write of `bytes` at stream position p of a file with contents f
WriteAt(f, p, bytes) ==
    LET n == IF p + Len(bytes) > Len(f) THEN p + Len(bytes) ELSE Len(f)
    IN  [i \in 1..n |-> IF i > p /\ i <= p + Len(bytes) THEN bytes[i - p]
                        ELSE IF i <= Len(f) THEN f[i]
                        ELSE 0]

\* write_map_object on a handle at stream position p; k is the number of
\* bytes the writer accepts before an I/O error (all of them: no error)
write_map_object(f, p, obj, k) ==
    LET bytes == ObjectBytes(obj)
    IN  [file |-> WriteAt(f, p, SubSeq(bytes, 1, k)),
         pos  |-> p + k,
         ret  |-> IF k = Len(bytes) THEN Ok(p) ELSE IoErr]

F64At(f, p) == F64FromBytes(SubSeq(f, p + 1, p + 8))

\* a decoder that takes each point's fields in the other order
DecodeAt_swapped(f, o, n) ==
    MapObject(
        BoundingBox(Point(F64At(f, o), F64At(f, o + 8)),
                    Point(F64At(f, o + 16), F64At(f, o + 24))),
        [i \in 1..n |->
            Point(F64At(f, o + 48 + 16 * (i - 1)), F64At(f, o + 40 + 16 * (i - 1)))])

\* the object whose fields start at byte offset o of f, with n points
DecodeAt(f, o, n) ==
    MapObject(
        BoundingBox(Point(F64At(f, o), F64At(f, o + 8)),
                    Point(F64At(f, o + 16), F64At(f, o + 24))),
        [i \in 1..n |->
            Point(F64At(f, o + BOUNDING_BOX_SIZE + POINTS_LEN_SIZE + POINT_SIZE * (i - 1)),
                  F64At(f, o + BOUNDING_BOX_SIZE + POINTS_LEN_SIZE + POINT_SIZE * (i - 1) + 8))])

PointsLenAt(f, o) ==
    I64FromBytes(SubSeq(f, o + BOUNDING_BOX_SIZE + 1,
                        o + BOUNDING_BOX_SIZE + POINTS_LEN_SIZE))

\* read_map_object(file, offset): seek, then decode; a read that runs into
\* the end of the file fails having consumed what was left, and a length no
\* Vec can hold aborts the call
read_map_object(f, o) ==
    LET header == BOUNDING_BOX_SIZE + POINTS_LEN_SIZE
        n      == PointsLenAt(f, o)
    IN  IF o + header > Len(f)
        THEN [ret |-> IoErr, pos |-> IF Len(f) > o THEN Len(f) ELSE o]
        ELSE IF n < 0
        THEN [ret |-> Panic, pos |-> o + header]
        ELSE IF o + header + POINT_SIZE * n > Len(f)
        THEN [ret |-> IoErr, pos |-> Len(f)]
        ELSE [ret |-> Ok(DecodeAt(f, o, n)), pos |-> o + header + POINT_SIZE * n]

NotMapped == <<0 - 1>>

\* a view that never looks at the length field
from_ptr_no_points(m, o) ==
    Ok([bbox   |-> DecodeAt(m, o, 0).bounding_box,
        points |-> <<>>,
        first  |-> o,
        last   |-> o + 40])

OutOfBounds == [ok |-> FALSE, ub |-> TRUE]

\* MappedData::read_map_object / MapObjectView::from_ptr over the mapped
\* bytes m: the view, or OutOfBounds when the header or the point slice
\* reaches past the mapping (undefined behaviour)
from_ptr(m, o) ==
    LET header == BOUNDING_BOX_SIZE + POINTS_LEN_SIZE
        n      == IF o + header > Len(m) THEN 0 - 1 ELSE PointsLenAt(m, o)
    IN  IF n < 0 \/ o + header + POINT_SIZE * n > Len(m)
        THEN OutOfBounds
        ELSE Ok([bbox   |-> DecodeAt(m, o, n).bounding_box,
                 points |-> DecodeAt(m, o, n).points,
                 first  |-> o,
                 last   |-> o + header + POINT_SIZE * n])

(***************************************************************************)
(* The inputs of the store: objects with either of two bounding boxes and  *)
(* 0..MaxPts points; at most MaxWrites calls of write_map_object.          *)
(***************************************************************************)
MaxPts == 1
MaxWrites == 3

BBoxAt(b) ==
    IF b = 1 THEN BoundingBox(Point(Deg(10), Deg(20)), Point(Deg(30), Deg(40)))
    ELSE BoundingBox(Point(0 - 3, 0), Point(5, 7))

PointAt(b, i) ==
    IF b = 1 THEN Point(Deg(10 + 5 * i), Deg(20 + 5 * i)) ELSE Point(0 - i, 3 * i - 3)

ObjInputs ==
    { MapObject(BBoxAt(b), [i \in 1..n |-> PointAt(b, i)]) :
        b \in 1..2, n \in 0..MaxPts }

NoRet == [op |-> "none"]

StoreIdle ==
    /\ file = <<>>
    /\ pos = 0
    /\ calls = <<>>
    /\ ret = NoRet
    /\ mapped = NotMapped

\* one call of write_map_object that succeeds
StoreWrite ==
    /\ mapped = NotMapped
    /\ Len(calls) < MaxWrites
    /\ \E obj \in ObjInputs :
        LET w == write_map_object(file, pos, obj, Len(ObjectBytes(obj)))
        IN  /\ file' = w.file
            /\ pos' = w.pos
            /\ calls' = Append(calls, [ok |-> TRUE, obj |-> obj, off |-> w.ret.val,
                                       start |-> pos, end |-> w.pos,
                                       eof |-> Len(file)])
    /\ UNCHANGED <<ret, mapped>>
    /\ UNCHANGED storeOthers

\* one call of write_map_object that meets an I/O error, before the first
\* byte or after the bounding box
StoreWriteFail ==
    /\ mapped = NotMapped
    /\ Len(calls) < MaxWrites
    /\ \E obj \in ObjInputs, k \in {0, BOUNDING_BOX_SIZE} :
        LET w == write_map_object(file, pos, obj, k)
        IN  /\ ~w.ret.ok
            /\ file' = w.file
            /\ pos' = w.pos
            /\ calls' = Append(calls, [ok |-> FALSE, obj |-> obj, off |-> 0 - 1,
                                       start |-> pos, end |-> w.pos,
                                       eof |-> Len(file)])
    /\ UNCHANGED <<ret, mapped>>
    /\ UNCHANGED storeOthers

\* read_map_object on the same handle, at an offset a write returned
StoreRead ==
    /\ \E c \in 1..Len(calls) :
        /\ calls[c].ok
        /\ LET r == read_map_object(file, calls[c].off)
           IN  /\ pos' = r.pos
               /\ ret' = [op |-> "read", off |-> calls[c].off, res |-> r.ret]
    /\ UNCHANGED <<file, calls, mapped>>
    /\ UNCHANGED storeOthers

\* MappedData::new on the file
StoreMap ==
    /\ mapped = NotMapped
    /\ file # <<>>
    /\ mapped' = file
    /\ UNCHANGED <<file, pos, calls, ret>>
    /\ UNCHANGED storeOthers

\* MappedData::read_map_object at an offset a write returned
StoreView ==
    /\ mapped # NotMapped
    /\ \E c \in 1..Len(calls) :
        /\ calls[c].ok
        /\ ret' = [op |-> "view", off |-> calls[c].off,
                   res |-> from_ptr(mapped, calls[c].off)]
    /\ UNCHANGED <<file, pos, calls, mapped>>
    /\ UNCHANGED storeOthers

\* the seeking read once the file is mapped
StoreReadMapped == mapped # NotMapped /\ StoreRead

(***************************************************************************)
(* TileIndex (data/spatial.rs): offset lists keyed by Tile::index.         *)
(***************************************************************************)
None == [ok |-> TRUE, some |-> FALSE]
Some(v) == [ok |-> TRUE, some |-> TRUE, val |-> v]

NoTiles == [k \in {} |-> <<>>]

TileIndex_new == [tiles |-> NoTiles, max_points |-> 0]

\* self.tiles.entry(key).or_insert_with(Vec::new).push(offset)
PushAt(ts, key, offset) ==
    [k \in DOMAIN ts \cup {key} |->
        IF k \in DOMAIN ts THEN (IF k = key THEN Append(ts[k], offset) ELSE ts[k])
        ELSE <<offset>>]

\* TileIndex::insert: the new map, or Panic when tile.index() aborts
TileIndex_insert(ts, t, offset, checks) ==
    LET key == Tile_index(t, checks)
    IN  IF key.ok THEN Ok(PushAt(ts, key.val, offset)) ELSE Panic

\* TileIndex::get
TileIndex_get(ts, t, checks) ==
    LET key == Tile_index(t, checks)
    IN  IF ~key.ok THEN Panic
        ELSE IF key.val \in DOMAIN ts THEN Some(ts[key.val])
        ELSE None

\* TileIndex::update_max_points
\* an update that stores the last argument
update_max_points_last(mp, num_points) == num_points

\* TileIndex::update_max_points
update_max_points(mp, num_points) == IF num_points > mp THEN num_points ELSE mp

MaxInserts == 2
MaxOffsets == 1

\* tiles handed to insert and get: in range, out of range (Tile::new checks
\* nothing) and zoom 17
IndexTiles ==
    { Tile(0, 0, 0), Tile(0, 1, 1), Tile(1, 1, 1), Tile(2, 0, 1),
      Tile(0, 0, 17), Tile(0, 2^16, 17) }

OffsetInputs == { map_object_size(n) * n : n \in 0..MaxOffsets }

NoLookup == [op |-> "none"]

IndexEmpty ==
    /\ tiles = TileIndex_new.tiles
    /\ max_points = TileIndex_new.max_points
    /\ inserted = <<>>
    /\ lookup = NoLookup
    /\ updates = <<>>

IndexInsert ==
    /\ Len(inserted) < MaxInserts
    /\ \E t \in IndexTiles, offset \in OffsetInputs :
        LET r == TileIndex_insert(tiles, t, offset, overflow_checks)
        IN  /\ tiles' = IF r.ok THEN r.val ELSE tiles
            /\ inserted' = Append(inserted, [tile |-> t, off |-> offset, ok |-> r.ok])
    /\ UNCHANGED <<max_points, lookup, updates>>
    /\ UNCHANGED indexOthers

IndexGet ==
    /\ \E t \in IndexTiles :
        lookup' = [op |-> "get", tile |-> t,
                   res |-> TileIndex_get(tiles, t, overflow_checks)]
    /\ UNCHANGED <<tiles, max_points, inserted, updates>>
    /\ UNCHANGED indexOthers

MaxUpdates == 2

\* numbers of points of the objects whose size is reported
PointCounts == {1, 3}

IndexUpdateMaxPoints ==
    /\ Len(updates) < MaxUpdates
    /\ \E n \in PointCounts :
        /\ max_points' = update_max_points(max_points, n)
        /\ updates' = Append(updates, n)
    /\ UNCHANGED <<tiles, inserted, lookup>>
    /\ UNCHANGED indexOthers

(***************************************************************************)
(* Ingestion (data/loader.rs, projection.rs).                              *)
(*                                                                         *)
(* deg2num is computed on the zoom-20 grid: MercatorX and MercatorY are    *)
(* deg2num's x and y at zoom 20, and the floor at zoom z <= 20 is the      *)
(* zoom-20 value shifted right 20 - z bits.                                *)
(***************************************************************************)
max_z == 15

GridZoom == 4 * 5

\* floor((lon_deg + 180.0) / 360.0 * 2^20), where 360 * 2^FracBits = 45 * 2^9
MercatorX(lon) == ((lon + Deg(180)) * 2^(GridZoom - FracBits - 3)) \div 45

\* floor((1 - ln(tan(lat) + 1/cos(lat)) / PI) / 2 * 2^20) for the latitudes
\* of the inputs; -86 is beyond the Mercator square and gives y >= 2^z
MercatorY(lat) ==
    CASE lat = Deg(60) -> 304506
      [] lat = Deg(0) -> 524288
      [] lat = Deg(0 - 60) -> 744069
      [] lat = Deg(0 - 86) -> 1084136

deg2num(lat_deg, lon_deg, zoom) ==
    <<MercatorX(lon_deg) \div 2^(GridZoom - zoom),
      MercatorY(lat_deg) \div 2^(GridZoom - zoom)>>

\* the tiles pushed for one zoom level, x outermost
TilesAtZoom(bbox, z) ==
    LET lo == deg2num(bbox.max.lat, bbox.min.lon, z)
        hi == deg2num(bbox.min.lat, bbox.max.lon, z)
        w  == IF hi[1] >= lo[1] THEN hi[1] - lo[1] + 1 ELSE 0
        h  == IF hi[2] >= lo[2] THEN hi[2] - lo[2] + 1 ELSE 0
    IN  [i \in 1..(w * h) |-> Tile(lo[1] + ((i - 1) \div h), lo[2] + ((i - 1) % h), z)]

RECURSIVE get_tiles_for_bounding_box(_, _, _)
get_tiles_for_bounding_box(bbox, min_z, maxz) ==
    IF min_z > maxz THEN <<>>
    ELSE TilesAtZoom(bbox, min_z) \o get_tiles_for_bounding_box(bbox, min_z + 1, maxz)

\* f64::MAX and f64::MIN: above and below every coordinate
F64_MAX == OtherF64
F64_MIN == 0 - OtherF64

\* f64::min and f64::max
f64_min(a, b) == IF b < a THEN b ELSE a
f64_max(a, b) == IF b > a THEN b ELSE a

\* a box made of the first and the last point
from_points_ends(points) ==
    IF points = <<>> THEN None
    ELSE Some(BoundingBox(points[1], points[Len(points)]))

\* the loop `for point in points` of from_points from point i on; acc is
\* [min_lon, min_lat, max_lon, max_lat]
RECURSIVE from_points_from(_, _, _)
from_points_from(points, i, acc) ==
    IF i > Len(points) THEN acc
    ELSE from_points_from(points, i + 1,
             [min_lon |-> f64_min(acc.min_lon, points[i].lon),
              min_lat |-> f64_min(acc.min_lat, points[i].lat),
              max_lon |-> f64_max(acc.max_lon, points[i].lon),
              max_lat |-> f64_max(acc.max_lat, points[i].lat)])

\* BoundingBox::from_points
from_points(points) ==
    IF points = <<>> THEN None
    ELSE LET acc == from_points_from(points, 1,
                        [min_lon |-> F64_MAX, min_lat |-> F64_MAX,
                         max_lon |-> F64_MIN, max_lat |-> F64_MIN])
         IN  Some(BoundingBox(Point(acc.min_lon, acc.min_lat),
                              Point(acc.max_lon, acc.max_lat)))

\* a classifier that looks at the first tag only
is_important_first_tag(tags) ==
    /\ tags # <<>>
    /\ Head(tags)[1] = "highway"
    /\ Head(tags)[2] \in
           { "motorway", "trunk", "primary", "secondary", "tertiary",
             "motorway_link", "trunk_link", "primary_link",
             "secondary_link", "tertiary_link" }

RECURSIVE is_important_way(_)
is_important_way(tags) ==
    IF tags = <<>> THEN FALSE
    ELSE IF /\ Head(tags)[1] = "highway"
            /\ Head(tags)[2] \in
                   { "motorway", "trunk", "primary", "secondary", "tertiary",
                     "motorway_link", "trunk_link", "primary_link",
                     "secondary_link", "tertiary_link" }
         THEN TRUE
    ELSE is_important_way(Tail(tags))

\* the loop `for tile in tiles` of load_osm_data from tile i on; st is
\* [tiles, log, ok], and a panic of insert ends the loop
RECURSIVE InsertTiles(_, _, _, _, _, _)
InsertTiles(st, ts, i, offset, is_important, checks) ==
    IF i > Len(ts) \/ ~st.ok THEN st
    ELSE IF ~is_important /\ ts[i].z < 11
    THEN InsertTiles(st, ts, i + 1, offset, is_important, checks)
    ELSE LET r == TileIndex_insert(st.tiles, ts[i], offset, checks)
         IN  InsertTiles([tiles |-> IF r.ok THEN r.val ELSE st.tiles,
                          log   |-> Append(st.log, [tile |-> ts[i], off |-> offset, ok |-> r.ok]),
                          ok    |-> r.ok],
                         ts, i + 1, offset, is_important, checks)

NoFault == 0 - 1

\* the closure of load_osm_data run on one way; st is [file, pos, tiles,
\* max_points, log], io is NoFault or the number of bytes the file accepts
\* before the write fails
load_way(st, way, io, checks) ==
    IF way.points = <<>>
    THEN [file |-> st.file, pos |-> st.pos, tiles |-> st.tiles,
          max_points |-> st.max_points, log |-> st.log,
          outcome |-> "skipped", off |-> 0 - 1]
    ELSE CHOOSE out \in
        { IF ~w.ret.ok
          THEN [file |-> w.file, pos |-> w.pos, tiles |-> st.tiles,
                max_points |-> update_max_points(st.max_points, Len(way.points)),
                log |-> st.log, outcome |-> "write failed", off |-> 0 - 1]
          ELSE CHOOSE done \in
              { [file |-> w.file, pos |-> w.pos, tiles |-> ins.tiles,
                 max_points |-> update_max_points(st.max_points, Len(way.points)),
                 log |-> ins.log,
                 outcome |-> IF ins.ok THEN "indexed" ELSE "panicked",
                 off |-> w.ret.val] :
                  ins \in { InsertTiles([tiles |-> st.tiles, log |-> st.log, ok |-> TRUE],
                                        get_tiles_for_bounding_box(
                                            from_points(way.points).val, 0, max_z),
                                        1, w.ret.val, is_important_way(way.tags),
                                        checks) } } : TRUE :
            w \in { write_map_object(
                       st.file, st.pos,
                       MapObject(from_points(way.points).val, way.points),
                       IF io = NoFault
                       THEN Len(ObjectBytes(MapObject(from_points(way.points).val, way.points)))
                       ELSE io) } } : TRUE

\* what load_osm_data returns when the reader has no more elements, st being
\* [tiles, max_points, ways]: the index, whatever happened to the writes
load_osm_data_result(st) ==
    IF \E i \in 1..Len(st.ways) : st.ways[i].outcome = "panicked"
    THEN Panic
    ELSE Ok([tiles |-> st.tiles, max_points |-> st.max_points])

MaxWays == 2

Way(points, tags) == [points |-> points, tags |-> tags]

MajorTagInputs ==
    { <<<<"highway", v>>>> :
        v \in { "motorway", "trunk", "primary", "secondary", "tertiary",
                "motorway_link", "trunk_link", "primary_link",
                "secondary_link", "tertiary_link" } }

OtherTagInputs ==
    { <<>>,
      <<<<"highway", "residential">>>>,
      <<<<"name", "primary">>>>,
      <<<<"Highway", "motorway">>>>,
      <<<<"highway", "residential">>, <<"highway", "tertiary_link">>>> }

\* node locations: one node, two nodes in neighbouring tiles, and a node at
\* longitude 180 south of the Mercator square
WidePointInputs ==
    { <<Point(0, 0), Point(0 - 1, 0)>>,
      <<Point(Deg(180), Deg(0 - 86))>> }

WayInputs ==
    { Way(<<Point(0, 0)>>, tags) : tags \in MajorTagInputs \cup OtherTagInputs }
        \cup { Way(ps, tags) :
                  ps \in WidePointInputs,
                  tags \in { <<>>, <<<<"highway", "primary">>>> } }
        \cup { Way(<<>>, <<<<"highway", "primary">>>>) }

\* ways whose write fails
FailingWayInputs ==
    { Way(ps, <<<<"highway", "primary">>>>) : ps \in WidePointInputs }

IngestIdle == ways = <<>>

IngestState ==
    [file |-> file, pos |-> pos, tiles |-> tiles, max_points |-> max_points,
     log |-> inserted]

\* the closure runs on one way and no write fails
IngestWay ==
    /\ Len(ways) < MaxWays
    /\ \E way \in WayInputs :
        \E st \in {load_way(IngestState, way, NoFault, overflow_checks)} :
            /\ file' = st.file
            /\ pos' = st.pos
            /\ tiles' = st.tiles
            /\ max_points' = st.max_points
            /\ inserted' = st.log
            /\ ways' = Append(ways, [way |-> way, outcome |-> st.outcome, off |-> st.off])
            /\ updates' = IF st.outcome = "skipped" THEN updates
                           ELSE Append(updates, Len(way.points))
    /\ UNCHANGED <<calls, ret, mapped, lookup>>
    /\ UNCHANGED ingestOthers

\* the closure runs on one way whose write fails: the error is logged and
\* the closure returns
IngestWayWriteFails ==
    /\ Len(ways) < MaxWays
    /\ \E way \in FailingWayInputs, k \in {0, BOUNDING_BOX_SIZE} :
        \E st \in {load_way(IngestState, way, k, overflow_checks)} :
            /\ st.outcome = "write failed"
            /\ file' = st.file
            /\ pos' = st.pos
            /\ tiles' = st.tiles
            /\ max_points' = st.max_points
            /\ inserted' = st.log
            /\ ways' = Append(ways, [way |-> way, outcome |-> st.outcome, off |-> st.off])
            /\ updates' = IF st.outcome = "skipped" THEN updates
                           ELSE Append(updates, Len(way.points))
    /\ UNCHANGED <<calls, ret, mapped, lookup>>
    /\ UNCHANGED ingestOthers

(***************************************************************************)
(* Tile request path (server/handlers.rs, renderer/renderer.rs,            *)
(* encoding/png.rs).                                                       *)
(*                                                                         *)
(* Bounding boxes are compared on the doubled zoom-20 grid: LonOrd and     *)
(* LatOrd map a coordinate to twice its grid cell, plus one when it lies   *)
(* strictly inside the cell, and a tile edge lies on an even position.     *)
(* Both maps are monotone, so overlaps decides as it does on degrees.      *)
(***************************************************************************)
TILE_SIZE == 256
TILE_SIZE_2X == 2 * TILE_SIZE
max_sets == 10
vertex_buffer_capacity == 10 * 1000 * 1000

White == <<255, 255, 255, 255>>

\* RgbaImage::from_pixel; drawn is the number of vertices drawn over the fill
from_pixel(width, height, pixel) ==
    [width |-> width, height |-> height, fill |-> pixel, drawn |-> 0]

\* Tile::get_parent
Tile_get_parent(t) ==
    IF t.z = 0 THEN None
    ELSE Some(Tile(t.x \div 2, t.y \div 2, t.z - 1))

\* `a >> s` on a u32 below 2^31: the shift amount must be below 32; with
\* overflow checks a larger one panics, without them it is taken modulo 32
Shr_u32(a, s, checks) ==
    IF s >= 32
    THEN (IF checks THEN Panic ELSE Ok(IF s % 32 = 31 THEN 0 ELSE a \div 2^(s % 32)))
    ELSE Ok(IF s = 31 THEN 0 ELSE a \div 2^s)

\* Tile::get_ancestor
Tile_get_ancestor(t, target_z, checks) ==
    IF target_z > t.z THEN None
    ELSE IF target_z = t.z THEN Some(t)
    ELSE IF \/ ~Shr_u32(t.x, t.z - target_z, checks).ok
            \/ ~Shr_u32(t.y, t.z - target_z, checks).ok
    THEN Panic
    ELSE Some(Tile(Shr_u32(t.x, t.z - target_z, checks).val,
                   Shr_u32(t.y, t.z - target_z, checks).val, target_z))

EdgeOrd(n, z) == 2 * n * 2^(GridZoom - z)

LonOrd(lon) ==
    2 * MercatorX(lon)
        + (IF ((lon + Deg(180)) * 2^(GridZoom - FracBits - 3)) % 45 = 0 THEN 0 ELSE 1)

LatOrd(lat) == 0 - (2 * MercatorY(lat) + (IF lat = 0 THEN 0 ELSE 1))

OrdBox(b) ==
    BoundingBox(Point(LonOrd(b.min.lon), LatOrd(b.min.lat)),
                Point(LonOrd(b.max.lon), LatOrd(b.max.lat)))

\* projection::get_bounding_box
get_bounding_box(t) ==
    LET lon_min == EdgeOrd(t.x, t.z)
        lat_min == 0 - EdgeOrd(t.y, t.z)
        lon_max == EdgeOrd(t.x + 1, t.z)
        lat_max == 0 - EdgeOrd(t.y + 1, t.z)
        min(a, b) == IF a < b THEN a ELSE b
        max(a, b) == IF a > b THEN a ELSE b
    IN  BoundingBox(Point(min(lon_min, lon_max), min(lat_min, lat_max)),
                    Point(max(lon_min, lon_max), max(lat_min, lat_max)))

\* BoundingBox::contains
contains(self, point) ==
    /\ point.lat >= self.min.lat
    /\ point.lat <= self.max.lat
    /\ point.lon >= self.min.lon
    /\ point.lon <= self.max.lon

\* an overlap test on open intervals
overlaps_open(self, other) ==
    /\ self.min.lat < other.max.lat
    /\ self.max.lat > other.min.lat
    /\ self.min.lon < other.max.lon
    /\ self.max.lon > other.min.lon

\* BoundingBox::overlaps
overlaps(self, other) ==
    /\ self.min.lat <= other.max.lat
    /\ self.max.lat >= other.min.lat
    /\ self.min.lon <= other.max.lon
    /\ self.max.lon >= other.min.lon

OtherF32 == 2 * OtherF64

\* `as f32`: a double of at most 24 significant bits converts exactly, any
\* other double to some other float
as_f32(v) == IF v < OtherF64 /\ v > 0 - OtherF64 THEN v ELSE OtherF32

\* a segment loop that never looks at the capacity
RECURSIVE emit_segments_unchecked(_, _, _)
emit_segments_unchecked(points, i, acc) ==
    IF i > Len(points) THEN acc
    ELSE emit_segments_unchecked(points, i + 1,
             [acc EXCEPT !.index = @ + 4,
                         !.vertex_count = @ + 2,
                         !.vertices = @ \o <<as_f32(points[i - 1].lon),
                                             as_f32(points[i - 1].lat),
                                             as_f32(points[i].lon),
                                             as_f32(points[i].lat)>>,
                         !.writes = @ \o <<acc.index, acc.index + 1,
                                           acc.index + 2, acc.index + 3>>])

\* the loop `for i in 1..points.len()` of build_vertex_buffer from segment i
\* on (point i - 1 to point i, points counted from 1): a segment that finds
\* fewer than 4 floats left breaks the loop
RECURSIVE emit_segments(_, _, _)
emit_segments(points, i, acc) ==
    IF i > Len(points) THEN acc
    ELSE IF acc.index + 4 > vertex_buffer_capacity
    THEN [acc EXCEPT !.full = TRUE]
    ELSE emit_segments(points, i + 1,
             [acc EXCEPT !.index = @ + 4,
                         !.vertex_count = @ + 2,
                         !.vertices = @ \o <<as_f32(points[i - 1].lon),
                                             as_f32(points[i - 1].lat),
                                             as_f32(points[i].lon),
                                             as_f32(points[i].lat)>>,
                         !.writes = @ \o <<acc.index, acc.index + 1,
                                           acc.index + 2, acc.index + 3>>])

\* the loop of build_vertex_buffer from offset i on; acc is [index,
\* vertex_count, vertices, writes, full, ub]: vertices the floats written so
\* far and writes their indexes in the buffer, full when a segment found no
\* room, ub when a view reaches outside the mapping
RECURSIVE build_from(_, _, _, _, _)
build_from(offsets, i, m, bbox, acc) ==
    IF i > Len(offsets) \/ acc.ub THEN acc
    ELSE CHOOSE out \in
        { IF ~map_object.ok
          THEN [acc EXCEPT !.ub = TRUE]
          ELSE IF \/ ~overlaps(bbox, OrdBox(map_object.val.bbox))
                  \/ Len(map_object.val.points) < 2
          THEN build_from(offsets, i + 1, m, bbox, acc)
          ELSE build_from(offsets, i + 1, m, bbox,
                          emit_segments(map_object.val.points, 2, acc)) :
            map_object \in {from_ptr(m, offsets[i])} } : TRUE

NoVertices ==
    [index |-> 0, vertex_count |-> 0, vertices |-> <<>>, writes |-> <<>>,
     full |-> FALSE, ub |-> FALSE]

\* a loop that starts at the second offset
build_vertex_buffer_from_second(offsets, m, bbox) ==
    build_from(offsets, 2, m, bbox, NoVertices)

build_vertex_buffer(offsets, m, bbox) ==
    build_from(offsets, 1, m, bbox, NoVertices)

VulkanErr == [ok |-> FALSE, err |-> "vulkan"]

\* the steps of VulkanRenderer::new that fail with an error: loading the
\* Vulkan library, finding a device and a graphics queue family, creating the
\* allocator, the shader modules, the pipeline and the vertex buffer
ConstructionFaults ==
    { "load", "no_physical_device", "no_queue_family", "allocator",
      "shader_module", "pipeline", "vertex_buffer" }

\* VulkanContext::new and VulkanRenderer::new step by step: the fault that
\* makes each step fail
NewSteps ==
    << "load", "instance", "no_physical_device", "no_queue_family", "device",
       "command_pool", "allocator", "descriptor_set_layout", "render_pass",
       "shader_module", "pipeline_layout", "pipeline", "shader_modules_destroyed",
       "descriptor_pool", "command_buffer", "fence", "vertex_buffer",
       "vertex_memory" >>

\* and the call it makes when it succeeds
NewCalls ==
    << "load_library", "create_instance", "enumerate_physical_devices",
       "find_queue_family", "create_device", "create_command_pool",
       "create_allocator", "create_descriptor_set_layout", "create_render_pass",
       "create_shader_modules", "create_pipeline_layout", "create_pipeline",
       "destroy_shader_modules", "create_descriptor_pool",
       "allocate_command_buffer", "create_fence", "create_vertex_buffer",
       "allocate_vertex_memory" >>

\* the steps that return an error
NewFaults ==
    { NewSteps[k] : k \in 1..Len(NewSteps) } \ {"shader_modules_destroyed"}

\* create_shader_module cannot open or read the shader file: expect() panics
ShaderFileFaults == { "shader_file" }

\* the points at which the GPU, the driver or the encoder can fail during
\* one request
Faults ==
    {"none"} \cup ConstructionFaults \cup ShaderFileFaults \cup
    { "render_target", "uniform", "descriptor", "submit", "free", "encode" }

\* VulkanRenderer::new: no render target, an empty descriptor pool
VulkanRenderer_new(mp, fault) ==
    IF fault \in ShaderFileFaults THEN Panic
    ELSE IF fault \in ConstructionFaults \cup NewFaults THEN VulkanErr
    ELSE Ok([size |-> TILE_SIZE, render_target |-> FALSE, sets |-> 0, uniforms |-> 0,
             created |-> 0, pending |-> FALSE])

\* VulkanRenderer::new_with_tile_size
VulkanRenderer_new_with_tile_size(mp, size, fault) ==
    IF VulkanRenderer_new(mp, fault).ok
    THEN Ok([VulkanRenderer_new(mp, fault).val EXCEPT !.size = size])
    ELSE VulkanRenderer_new(mp, fault)

\* one call made to the device, the allocator or the mapped memory; n is
\* the vertex count of a draw and clear the clear colour of a render pass
E(op) == [op |-> op, n |-> 0, clear |-> <<>>]

OpaqueWhite == <<1, 1, 1, 1>>

RECURSIVE IndexOf(_, _)
\* the place of x in q, Len(q) + 1 when it is not there
IndexOf(q, x) ==
    IF q = <<>> \/ Head(q) = x THEN 1 ELSE 1 + IndexOf(Tail(q), x)

\* the calls of a function made before the one named by the fault fails,
\* all of them when none fails
Until(steps, fault) ==
    [k \in 1..(IF IndexOf(steps, fault) > Len(steps) THEN Len(steps)
               ELSE IndexOf(steps, fault) - 1) |-> E(steps[k])]

Fails(steps, fault) == IndexOf(steps, fault) <= Len(steps)

\* create_render_target: create_image (image, then its memory), the view,
\* the framebuffer, create_buffer (staging buffer, then its memory); the
\* fault "render_target" is the failure of the first call
RenderTargetSteps ==
    << "render_target", "image_memory", "image_view", "framebuffer",
       "staging", "staging_memory" >>

RenderTargetCalls ==
    << "create_image", "allocate_image_memory", "create_image_view",
       "create_framebuffer", "create_staging_buffer", "allocate_staging_memory" >>

create_render_target(fault) ==
    [ok |-> ~Fails(RenderTargetSteps, fault),
     events |-> [k \in 1..Len(Until(RenderTargetSteps, fault)) |->
                    E(RenderTargetCalls[k])]]

\* what the drop of a VulkanContext destroys
ContextDrop ==
    << E("destroy_command_pool"), E("destroy_device"), E("destroy_instance") >>

\* the calls of VulkanRenderer::new with the given fault: those of the
\* steps before the failing one and then, on failure, what the locals
\* dropped on the way out destroy: the allocator when it exists, then the
\* context when it exists (a step that panics unwinds the same way)
VulkanRenderer_new_events(fault) ==
    LET f    == IF fault \in ShaderFileFaults THEN "shader_module" ELSE fault
        made == [k \in 1..Len(Until(NewSteps, f)) |-> E(NewCalls[k])]
    IN  made
          \o (IF Fails(NewSteps, f) /\ Len(made) >= IndexOf(NewSteps, "allocator")
              THEN <<E("drop_allocator")>> ELSE <<>>)
          \o (IF Fails(NewSteps, f) /\ Len(made) >= IndexOf(NewSteps, "command_pool")
              THEN ContextDrop ELSE <<>>)

\* a drop that lets the context go before the renderer's own objects
drop_context_first(r) ==
    << E("device_wait_idle") >> \o ContextDrop
      \o << E("destroy_vertex_buffer"), E("free_vertex_memory"),
            E("destroy_fence"), E("destroy_descriptor_pool"),
            E("destroy_pipeline"), E("destroy_pipeline_layout"),
            E("destroy_descriptor_set_layout"), E("destroy_render_pass"),
            E("drop_allocator") >>

\* impl Drop for VulkanRenderer, then the drop of the fields in declaration
\* order: memory_manager (the allocator), then context
drop(r) ==
    << E("device_wait_idle") >>
      \o (IF r.render_target
          THEN << E("destroy_framebuffer"), E("destroy_image_view"),
                  E("destroy_image"), E("destroy_staging_buffer"),
                  E("free_image_memory"), E("free_staging_memory") >>
          ELSE <<>>)
      \o << E("destroy_vertex_buffer"), E("free_vertex_memory"),
            E("destroy_fence"), E("destroy_descriptor_pool"),
            E("destroy_pipeline"), E("destroy_pipeline_layout"),
            E("destroy_descriptor_set_layout"), E("destroy_render_pass"),
            E("drop_allocator") >>
      \o ContextDrop

\* create_uniform_buffer: create_buffer (buffer, then its memory)
UniformSteps == << "uniform", "uniform_memory" >>
UniformCalls == << "create_uniform_buffer", "allocate_uniform_memory" >>

create_uniform_buffer(fault) ==
    [ok |-> ~Fails(UniformSteps, fault),
     events |-> [k \in 1..Len(Until(UniformSteps, fault)) |-> E(UniformCalls[k])]]

\* create_descriptor_set on a pool with `sets` sets allocated
create_descriptor_set(sets, fault) ==
    IF sets >= max_sets \/ fault = "descriptor"
    THEN [ok |-> FALSE, events |-> <<>>]
    ELSE [ok |-> TRUE,
          events |-> <<E("allocate_descriptor_set"), E("update_descriptor_set")>>]

\* record_and_submit_commands: the calls in program order; the six that
\* return a Result are fault points
CycleSteps ==
    << "reset_fence", "reset_command_buffer", "begin_command_buffer",
       "begin_render_pass", "bind_pipeline", "bind_vertex_buffer",
       "bind_descriptor_set", "draw", "end_render_pass",
       "copy_image_to_buffer", "end_command_buffer", "submit", "wait" >>

CycleFaults ==
    { "reset_fence", "reset_command_buffer", "begin_command_buffer",
      "end_command_buffer", "submit", "wait" }

record_and_submit_commands(vertex_count, fault) ==
    [ok |-> ~(fault \in CycleFaults /\ Fails(CycleSteps, fault)),
     events |-> [k \in 1..Len(Until(CycleSteps, IF fault \in CycleFaults
                                                  THEN fault ELSE "none")) |->
                    IF CycleSteps[k] = "draw"
                    THEN [E("draw") EXCEPT !.n = vertex_count]
                    ELSE IF CycleSteps[k] = "begin_render_pass"
                    THEN [E("begin_render_pass") EXCEPT !.clear = OpaqueWhite]
                    ELSE E(CycleSteps[k])]]

\* the renderer starts a cycle while the fence of its last submission has
\* not signalled: the reset of a fence in use is undefined
FenceInUse == [ok |-> FALSE, ub |-> TRUE]

\* the faults of render_tile beyond those of Faults: the later calls of
\* create_render_target and create_buffer, and the calls of the cycle
RenderFaults ==
    { "none", "render_target", "image_memory", "image_view", "framebuffer",
      "staging", "staging_memory", "uniform", "uniform_memory", "descriptor",
      "free" } \cup CycleFaults

RenderOut(r, res, found, events) ==
    [renderer |-> r, res |-> res, offsets |-> found, events |-> events]

\* a renderer that creates its render target before it looks the tile up
render_tile_target_first(r, t, ts, m, checks, fault) ==
    RenderOut([r EXCEPT !.render_target = TRUE],
              IF TileIndex_get(ts, t, checks).ok
              THEN Ok(from_pixel(TILE_SIZE, TILE_SIZE, White)) ELSE Panic,
              TileIndex_get(ts, t, checks),
              [k \in 1..Len(RenderTargetCalls) |-> E(RenderTargetCalls[k])])

\* the part of render_tile after build_vertex_buffer returned a count
\* above 0: uniform buffer, descriptor set, the cycle, the read and the
\* clean-up; r has its render target and ev holds the calls made so far
render_vertices(r, vertex_count, found, ev, fault) ==
    CHOOSE out \in
      { IF ~ub.ok
        THEN RenderOut(r, VulkanErr, found, ev \o ub.events)
        ELSE IF ~ds.ok
        THEN RenderOut([r EXCEPT !.uniforms = @ + 1], VulkanErr, found,
                       ev \o ub.events \o ds.events)
        ELSE IF r.pending
        THEN RenderOut([r EXCEPT !.sets = @ + 1, !.uniforms = @ + 1],
                       FenceInUse, found,
                       ev \o ub.events \o ds.events \o <<E("reset_fence")>>)
        ELSE IF ~cy.ok
        THEN RenderOut([r EXCEPT !.sets = @ + 1, !.uniforms = @ + 1,
                                 !.pending = fault = "wait"],
                       VulkanErr, found, ev \o ub.events \o ds.events \o cy.events)
        ELSE IF fault = "free"
        THEN RenderOut([r EXCEPT !.sets = @ + 1, !.uniforms = @ + 1],
                       VulkanErr, found,
                       ev \o ub.events \o ds.events \o cy.events
                          \o <<E("read_staging_buffer"), E("destroy_uniform_buffer")>>)
        ELSE RenderOut([r EXCEPT !.sets = @ + 1],
                       Ok([width |-> TILE_SIZE, height |-> TILE_SIZE,
                           fill |-> White, drawn |-> vertex_count]),
                       found,
                       ev \o ub.events \o ds.events \o cy.events
                          \o <<E("read_staging_buffer"), E("destroy_uniform_buffer"),
                               E("free_uniform_memory")>>) :
          ub \in {create_uniform_buffer(fault)},
          ds \in {create_descriptor_set(r.sets, fault)},
          cy \in {record_and_submit_commands(vertex_count, fault)} } : TRUE

\* what render_tile reads for a tile: the index entry and, when there is
\* one, what build_vertex_buffer makes of it
TileLookup(t, ts, m, checks) ==
    CHOOSE lk \in
      { [found |-> found,
         built |-> IF found.ok /\ found.some
                   THEN build_vertex_buffer(found.val, m, get_bounding_box(t))
                   ELSE NoVertices] :
          found \in {TileIndex_get(ts, t, checks)} } : TRUE

\* VulkanRenderer::render_tile on renderer r, lk being what it reads for
\* the tile: the renderer afterwards, the result, what the index lookup
\* returned and the calls made
render_tile_with(r, lk, fault) ==
    IF ~lk.found.ok THEN RenderOut(r, Panic, lk.found, <<>>)
    ELSE IF ~lk.found.some
    THEN RenderOut(r, Ok(from_pixel(TILE_SIZE, TILE_SIZE, White)), lk.found, <<>>)
    ELSE CHOOSE out \in
      { IF ~r.render_target /\ ~rt.ok
        THEN RenderOut([r EXCEPT !.created = @ + (IF rt.events = <<>> THEN 0 ELSE 1)],
                       VulkanErr, lk.found, rt.events)
        ELSE CHOOSE done \in
          { IF lk.built.ub
            THEN RenderOut(r1, OutOfBounds, lk.found, ev)
            ELSE IF lk.built.vertex_count = 0
            THEN RenderOut(r1, Ok(from_pixel(TILE_SIZE, TILE_SIZE, White)),
                           lk.found, ev)
            ELSE render_vertices(r1, lk.built.vertex_count, lk.found, ev, fault) :
              r1 \in {IF r.render_target THEN r
                      ELSE [r EXCEPT !.render_target = TRUE, !.created = @ + 1]},
              ev \in {IF r.render_target THEN <<>> ELSE rt.events} } : TRUE :
          rt \in {create_render_target(fault)} } : TRUE

render_tile(r, t, ts, m, checks, fault) ==
    render_tile_with(r, TileLookup(t, ts, m, checks), fault)

EncodeErr == [ok |-> FALSE, err |-> "image"]

\* encode_png: the image as a PNG, or the encoder's error
encode_png(image, fault) ==
    IF fault = "encode" THEN EncodeErr
    ELSE Ok([format |-> "png", image |-> image])

DOT_PNG == <<".", "p", "n", "g">>
AT2X_PNG == <<"@", "2", "x">> \o DOT_PNG
DecimalDigits == <<"0", "1", "2", "3", "4", "5", "6", "7", "8", "9">>

\* str::strip_suffix
strip_suffix(s, suffix) ==
    IF Len(s) >= Len(suffix) /\ SubSeq(s, Len(s) - Len(suffix) + 1, Len(s)) = suffix
    THEN Some(SubSeq(s, 1, Len(s) - Len(suffix)))
    ELSE None

RECURSIVE DigitsValue(_)
DigitsValue(s) ==
    IF s = <<>> THEN 0
    ELSE 10 * DigitsValue(SubSeq(s, 1, Len(s) - 1))
             + (CHOOSE d \in 0..9 : DecimalDigits[d + 1] = s[Len(s)])

\* str::parse::<u32> of at most nine digits, with an optional plus sign
parse_u32(s) ==
    LET digits == IF s # <<>> /\ s[1] = "+" THEN Tail(s) ELSE s
    IN  IF \/ digits = <<>>
           \/ \E i \in 1..Len(digits) : \A d \in 1..10 : DecimalDigits[d] # digits[i]
        THEN None
        ELSE Some(DigitsValue(digits))

\* the decimal form of n
RECURSIVE Decimal(_)
Decimal(n) ==
    IF n < 10 THEN <<DecimalDigits[n + 1]>>
    ELSE Append(Decimal(n \div 10), DecimalDigits[(n % 10) + 1])

NoRenderer ==
    [size |-> 0, render_target |-> FALSE, sets |-> 0, uniforms |-> 0,
     created |-> 0, pending |-> FALSE]
EmptySlot == [present |-> FALSE, poisoned |-> FALSE, renderer |-> NoRenderer]
NotCalled == [ok |-> FALSE, called |-> FALSE]
NotBuilt == [ok |-> FALSE, built |-> FALSE]
NotEncoded == [ok |-> FALSE, encoded |-> FALSE]

\* how a request ends other than with a response: the handler panics, or
\* it reads outside the mapping; status is then NoStatus
NoStatus == 0
Panicked == 0 - 1
Undefined == 0 - 2

\* what one run of the handler did: ready is the result of the construction
\* it attempted (NotBuilt when it attempted none), out that of render_tile and
\* png that of encode_png
Response(t, size, status, slot_before, ready, out, png) ==
    [tile |-> t, size |-> size,
     status |-> IF status > 0 THEN status ELSE NoStatus,
     fate |-> IF status > 0 THEN "replied"
              ELSE IF status = Panicked THEN "panicked" ELSE "undefined",
     content_type |-> IF status = 200 THEN "image/png" ELSE "",
     locked |-> slot_before.poisoned,
     held |-> slot_before.present,
     construction |-> IF ready = NotBuilt THEN "none"
                      ELSE IF ready.ok THEN "ok"
                      ELSE IF ready = Panic THEN "panic" ELSE "err",
     called |-> out # NotCalled,
     before |-> IF ready # NotBuilt /\ ready.ok THEN ready.val
                ELSE slot_before.renderer,
     after |-> IF out # NotCalled THEN out.renderer
               ELSE IF ready # NotBuilt /\ ready.ok THEN ready.val
               ELSE slot_before.renderer,
     res |-> IF out # NotCalled THEN out.res ELSE NotCalled,
     offsets |-> IF out # NotCalled THEN out.offsets ELSE NotCalled,
     encoding |-> IF png = NotEncoded THEN "none"
                  ELSE IF png.ok THEN "ok" ELSE "err"]

\* a handler that throws the renderer away when render_tile fails
RenderWith_drops_on_error(slot, ready, t, size, ts, m, checks, fault) ==
    CHOOSE done \in
      { [slot |-> IF out.res.ok
                  THEN [present |-> TRUE, poisoned |-> FALSE, renderer |-> out.renderer]
                  ELSE EmptySlot,
         resp |-> Response(t, size, IF out.res.ok THEN 200 ELSE 500,
                           slot, ready, out,
                           IF out.res.ok THEN Ok([format |-> "png", image |-> out.res.val])
                           ELSE NotEncoded)] :
          out \in { render_tile(IF slot.present THEN slot.renderer ELSE ready.val,
                                t, ts, m, checks, fault) } } : TRUE

\* the part of a `RENDERER_nnn.with(...)` block after the renderer is in the
\* slot: render_tile on it, then encode_png on the image
RenderWith(slot, ready, t, size, ts, m, checks, fault) ==
    CHOOSE done \in
      { [slot |-> [present |-> TRUE, poisoned |-> out.res = Panic,
                   renderer |-> out.renderer],
         resp |-> Response(t, size,
                           IF out.res.ok
                           THEN (IF encode_png(out.res.val, fault).ok THEN 200 ELSE 500)
                           ELSE IF out.res = VulkanErr THEN 500
                           ELSE IF out.res = Panic THEN Panicked
                           ELSE Undefined,
                           slot, ready, out,
                           IF out.res.ok THEN encode_png(out.res.val, fault)
                           ELSE NotEncoded)] :
          out \in { render_tile(IF slot.present THEN slot.renderer ELSE ready.val,
                                t, ts, m, checks, fault) } } : TRUE

\* the two `RENDERER_nnn.with(...)` blocks of handle_tile_request for one
\* request, the slot holding a renderer already or not
RenderInSlot(slot, t, size, ts, mp, m, checks, fault) ==
    IF slot.poisoned
    THEN [slot |-> slot,
          resp |-> Response(t, size, Panicked, slot, NotBuilt, NotCalled, NotEncoded)]
    ELSE IF slot.present
    THEN RenderWith(slot, NotBuilt, t, size, ts, m, checks, fault)
    ELSE CHOOSE done \in
      { IF ready = Panic
        THEN [slot |-> [slot EXCEPT !.poisoned = TRUE],
              resp |-> Response(t, size, Panicked, slot, ready, NotCalled, NotEncoded)]
        ELSE IF ~ready.ok
        THEN [slot |-> slot,
              resp |-> Response(t, size, 500, slot, ready, NotCalled, NotEncoded)]
        ELSE RenderWith(slot, ready, t, size, ts, m, checks, fault) :
          ready \in { IF size = TILE_SIZE_2X
                      THEN VulkanRenderer_new_with_tile_size(mp, TILE_SIZE_2X, fault)
                      ELSE VulkanRenderer_new(mp, fault) } } : TRUE

\* handle_tile_request on the worker's two slots sl
handle_tile_request(sl, z, x, y_png, ts, mp, m, checks, fault) ==
    LET hires  == strip_suffix(y_png, AT2X_PNG)
        plain  == strip_suffix(y_png, DOT_PNG)
        y      == IF hires.some THEN parse_u32(hires.val)
                  ELSE IF plain.some THEN parse_u32(plain.val)
                  ELSE None
        size   == IF hires.some THEN TILE_SIZE_2X ELSE TILE_SIZE
    IN  IF ~y.some
        THEN [slots |-> sl,
              resp  |-> Response(Tile(x, 0, z), size, 400, EmptySlot,
                                 NotBuilt, NotCalled, NotEncoded)]
        ELSE CHOOSE done \in
          { [slots |-> [sl EXCEPT ![size] = r.slot], resp |-> r.resp] :
              r \in { RenderInSlot(sl[size], Tile(x, y.val, z), size,
                                   ts, mp, m, checks, fault) } } : TRUE

MaxRequests == 2

\* what load_osm_data has built when the server starts
RECURSIVE load_osm_data(_, _, _, _)
load_osm_data(ws, i, st, checks) ==
    IF i > Len(ws) THEN st
    ELSE CHOOSE out \in
        { load_osm_data(ws, i + 1,
                        [file |-> n.file, pos |-> n.pos, tiles |-> n.tiles,
                         max_points |-> n.max_points, log |-> n.log,
                         ways |-> Append(st.ways, [way |-> ws[i], outcome |-> n.outcome,
                                                   off |-> n.off])],
                        checks) :
            n \in {load_way(st, ws[i], NoFault, checks)} } : TRUE

\* the arguments of the update_max_points calls made for the ways of a log
UpdatesOf(log) ==
    [i \in 1..Len(SelectSeq(log, LAMBDA e : e.outcome # "skipped")) |->
        Len(SelectSeq(log, LAMBDA e : e.outcome # "skipped")[i].way.points)]

LoadStart ==
    [file |-> <<>>, pos |-> 0, tiles |-> TileIndex_new.tiles,
     max_points |-> TileIndex_new.max_points, log |-> <<>>, ways |-> <<>>]

\* the datasets served: none, and a primary road across the tile boundary
\* at longitude 0 with an untagged one-node way at longitude 180
ServeDatasets ==
    { <<>>,
      << Way(<<Point(0, 0), Point(0 - 1, 0)>>, <<<<"highway", "primary">>>>),
         Way(<<Point(Deg(180), Deg(0 - 86))>>, <<>>) >> }

RequestTiles ==
    { Tile(2^14, 2^14, 15), Tile(2^15, 2^15, 16), Tile(0, 0, 15),
      Tile(2^15, 33879, 15), Tile(0, 2^16, 17) }

\* the last path segment of a request for row y, well formed
YForms(y) == { Decimal(y) \o DOT_PNG, Decimal(y) \o AT2X_PNG }

\* last path segments without a row number or without the suffix
MalformedForms ==
    { Decimal(0), <<"y">> \o DOT_PNG, <<"y">> \o AT2X_PNG, DOT_PNG,
      Decimal(0) \o <<"@", "2", "x">> }

\* the paths requested: z, x and the last segment
PathInputs ==
    UNION { { [z |-> t.z, x |-> t.x, y_png |-> y_png] : y_png \in YForms(t.y) } :
            t \in RequestTiles }
    \cup { [z |-> max_z, x |-> 0, y_png |-> y_png] : y_png \in MalformedForms }

\* the worker threads of the runtime
Workers == { "worker 1", "worker 2" }

NoSlots == [size \in {TILE_SIZE, TILE_SIZE_2X} |-> EmptySlot]
NoResponse ==
    Response(Tile(0, 0, 0), 0, 400, EmptySlot, NotBuilt, NotCalled, NotEncoded)
NoRequest == [worker |-> "none", z |-> 0, x |-> 0, y_png |-> <<>>]

ServeIdle ==
    /\ slots = [w \in Workers |-> NoSlots]
    /\ response = NoResponse
    /\ served = 0
    /\ request = NoRequest
    /\ constructed = <<>>

\* one request, run by the worker thread w it was scheduled on
HandleTileRequest ==
    /\ served < MaxRequests
    /\ \E w \in Workers, path \in PathInputs :
       \E r \in { handle_tile_request(slots[w], path.z, path.x, path.y_png, tiles,
                                     max_points, mapped, overflow_checks, fault) :
                   fault \in Faults } :
            /\ slots' = [slots EXCEPT ![w] = r.slots]
            /\ response' = r.resp
            /\ request' = [worker |-> w, z |-> path.z, x |-> path.x,
                           y_png |-> path.y_png]
            /\ constructed' =
                 IF r.resp.construction = "ok"
                 THEN Append(constructed, [worker |-> w, size |-> r.resp.size])
                 ELSE constructed
    /\ served' = served + 1
    /\ UNCHANGED serveOthers

(***************************************************************************)
(* Calls of the functions of data/types.rs on sample arguments.            *)
(***************************************************************************)
NoCall == [op |-> "none"]
CalcIdle == calc = NoCall

\* tiles of the pyramid, the tiles of the unit tests, and tiles whose zoom
\* is one the type allows and the pyramid does not have
AncestryTiles ==
    { Tile(0, 0, 0), Tile(1, 0, 1), Tile(5, 3, 3), Tile(10, 20, 15),
      Tile(100, 200, 17), Tile(2^20 - 1, 2^19, 20), Tile(2^30 + (2^30 - 1), 2^30, 31),
      Tile(1, 3, 32), Tile(2^30 + (2^30 - 1), 6, 34) }

TargetZooms(t) ==
    { k \in {0, 1, 2, 3, 15, 16, t.z - 1, t.z, t.z + 1} : k >= 0 }

\* get_parent and get_ancestor(target_z) are called on a tile
CallAncestry ==
    /\ calc = NoCall
    /\ \E t \in AncestryTiles :
       \E target_z \in TargetZooms(t) :
          calc' = [op |-> "ancestry", tile |-> t, target_z |-> target_z,
                   parent |-> Tile_get_parent(t),
                   ancestor |-> Tile_get_ancestor(t, target_z, overflow_checks)]
    /\ UNCHANGED overflow_checks
    /\ UNCHANGED calcOthers

\* the result is dropped
(***************************************************************************)
(* One renderer instance: construction, render_tile calls, drop.           *)
(***************************************************************************)
\* the data the instance renders: the road and the one-node way
GpuData ==
    load_osm_data(CHOOSE ws \in ServeDatasets : ws # <<>>, 1, LoadStart, TRUE)

\* a tile without index entry, one whose entry emits vertices and one whose
\* entry emits none
RenderTiles == { Tile(0, 0, 15), Tile(2^14, 2^14, 15), Tile(2^15, 33879, 15) }

\* what render_tile reads for each of them, with and without overflow checks
GpuLookups ==
    [checks \in BOOLEAN |->
        [t \in RenderTiles |-> TileLookup(t, GpuData.tiles, GpuData.file, checks)]]

MaxRenders == 3

NoInstance ==
    [phase |-> "none", renderer |-> NoRenderer, renders |-> 0, call |-> [op |-> "none"]]

GpuIdle == gpu = NoInstance

\* VulkanRenderer::new
InstanceNew ==
    /\ gpu.phase = "none"
    /\ \E fault \in {"none"} \cup NewFaults \cup ShaderFileFaults :
        \E ready \in {VulkanRenderer_new(GpuData.max_points, fault)} :
          gpu' = [phase |-> IF ready = Panic THEN "panicked"
                            ELSE IF ready.ok THEN "live" ELSE "failed",
                  renderer |-> IF ready.ok THEN ready.val ELSE NoRenderer,
                  renders |-> 0,
                  call |-> [op |-> "new", fault |-> fault,
                            events |-> VulkanRenderer_new_events(fault)]]
    /\ UNCHANGED gpuOthers

\* one render_tile call on the instance
InstanceRenderTile ==
    /\ gpu.phase = "live"
    /\ gpu.renders < MaxRenders
    /\ \E t \in RenderTiles, fault \in RenderFaults :
        \E out \in {render_tile_with(gpu.renderer, GpuLookups[overflow_checks][t],
                                     fault)} :
          gpu' = [phase |-> IF out.res = FenceInUse THEN "undefined" ELSE "live",
                  renderer |-> out.renderer,
                  renders |-> gpu.renders + 1,
                  call |-> [op |-> "render_tile", tile |-> t, fault |-> fault,
                            before |-> gpu.renderer, res |-> out.res,
                            offsets |-> out.offsets, events |-> out.events]]
    /\ UNCHANGED gpuOthers

MaxSequence == 11

\* one render_tile call in which no call to the device or the allocator
\* is made to fail
InstanceRenderTileNoFault ==
    /\ gpu.phase = "live"
    /\ gpu.renders < MaxSequence
    /\ \E t \in RenderTiles :
        \E out \in {render_tile_with(gpu.renderer, GpuLookups[overflow_checks][t],
                                     "none")} :
          gpu' = [phase |-> "live",
                  renderer |-> out.renderer,
                  renders |-> gpu.renders + 1,
                  call |-> [op |-> "render_tile", tile |-> t, fault |-> "none",
                            before |-> gpu.renderer, res |-> out.res,
                            offsets |-> out.offsets, events |-> out.events]]
    /\ UNCHANGED gpuOthers

\* the instance goes out of scope
InstanceDrop ==
    /\ gpu.phase = "live"
    /\ gpu' = [phase |-> "dropped",
               renderer |-> gpu.renderer,
               renders |-> gpu.renders,
               call |-> [op |-> "drop", before |-> gpu.renderer,
                         events |-> drop(gpu.renderer)]]
    /\ UNCHANGED gpuOthers

\* coordinates of the boxes and points handed to the BoundingBox functions
BoxCoords == {Deg(0 - 1), 0, Deg(1)}
BoxPoints == { Point(lon, lat) : lon \in BoxCoords, lat \in BoxCoords }

\* BoundingBox::new with any two points, min <= max or not
Boxes == { BoundingBox(min, max) : min \in BoxPoints, max \in BoxPoints }

MaxListLen == 3
PointLists == UNION { [1..n -> BoxPoints] : n \in 0..MaxListLen }

\* a.overlaps(&b) and b.overlaps(&a)
CallOverlaps ==
    /\ calc = NoCall
    /\ \E a \in Boxes, b \in Boxes :
          calc' = [op |-> "overlaps", a |-> a, b |-> b,
                   result |-> overlaps(a, b), reverse |-> overlaps(b, a)]
    /\ UNCHANGED overflow_checks
    /\ UNCHANGED calcOthers

\* bbox.contains(&point)
CallContains ==
    /\ calc = NoCall
    /\ \E bbox \in Boxes, point \in BoxPoints :
          calc' = [op |-> "contains", bbox |-> bbox, point |-> point,
                   result |-> contains(bbox, point)]
    /\ UNCHANGED overflow_checks
    /\ UNCHANGED calcOthers

\* BoundingBox::from_points(&points)
CallFromPoints ==
    /\ calc = NoCall
    /\ \E points \in PointLists :
          calc' = [op |-> "from_points", points |-> points,
                   result |-> from_points(points)]
    /\ UNCHANGED overflow_checks
    /\ UNCHANGED calcOthers

\* the objects of the vertex buffer inputs: a box north-west of (0, 0), one
\* south-east of it and one south of the Mercator square, with 0..MaxPoints
\* points
MaxPoints == 3

VertexBox(b) ==
    CASE b = 1 -> BoundingBox(Point(Deg(0 - 90), 0), Point(0, Deg(60)))
      [] b = 2 -> BoundingBox(Point(Deg(45), Deg(0 - 60)), Point(Deg(90), 0))
      [] b = 3 -> BoundingBox(Point(0, Deg(0 - 86)), Point(Deg(45), Deg(0 - 86)))

VertexObjects ==
    { MapObject(VertexBox(b), [i \in 1..n |-> Point(Deg(i) + b, Deg(2 * i) - b)]) :
        b \in 1..3, n \in 0..MaxPoints }

MaxObjects == 2
ObjectLists == UNION { [1..n -> VertexObjects] : n \in 0..MaxObjects }

VertexTiles == { Tile(0, 0, 0), Tile(0, 0, 1), Tile(1, 1, 1) }

\* the file after write_map_object of each object in turn
RECURSIVE FileOf(_)
FileOf(objs) ==
    IF objs = <<>> THEN <<>>
    ELSE FileOf(SubSeq(objs, 1, Len(objs) - 1)) \o ObjectBytes(objs[Len(objs)])

\* the offsets write_map_object returned
OffsetsOf(objs) == [i \in 1..Len(objs) |-> Len(FileOf(SubSeq(objs, 1, i - 1)))]

Reverse(q) == [i \in 1..Len(q) |-> q[Len(q) + 1 - i]]

\* build_vertex_buffer(offsets, mmap_data, &get_bounding_box(tile)) over
\* the file of the objects, the offsets in the order written or reversed
CallBuildVertexBuffer ==
    /\ calc = NoCall
    /\ \E objs \in ObjectLists, t \in VertexTiles, rev \in BOOLEAN :
        \E offsets \in {IF rev THEN Reverse(OffsetsOf(objs)) ELSE OffsetsOf(objs)} :
          calc' = [op |-> "build_vertex_buffer",
                   tile |-> t,
                   offsets |-> offsets,
                   views |-> [i \in 1..Len(offsets) |-> from_ptr(FileOf(objs), offsets[i])],
                   result |-> build_vertex_buffer(offsets, FileOf(objs),
                                                  get_bounding_box(t))]
    /\ UNCHANGED overflow_checks
    /\ UNCHANGED calcOthers

\* the segments for which the buffer still has room when the loop is entered
MaxRoom == 2

\* the accumulator of build_vertex_buffer after earlier objects of the tile
\* have left room for `room` segments
FilledTo(room) ==
    [NoVertices EXCEPT !.index = vertex_buffer_capacity - 4 * room,
                       !.vertex_count = (vertex_buffer_capacity - 4 * room) \div 2]

\* the loop of build_vertex_buffer over the offsets that remain when the
\* buffer has room for 0..MaxRoom more segments
CallBuildFrom ==
    /\ calc = NoCall
    /\ \E objs \in ObjectLists, t \in VertexTiles, room \in 0..MaxRoom :
          calc' = [op |-> "build_from",
                   tile |-> t,
                   room |-> room,
                   offsets |-> OffsetsOf(objs),
                   views |-> [i \in 1..Len(objs) |->
                                 from_ptr(FileOf(objs), OffsetsOf(objs)[i])],
                   result |-> build_from(OffsetsOf(objs), 1, FileOf(objs),
                                         get_bounding_box(t), FilledTo(room))]
    /\ UNCHANGED overflow_checks
    /\ UNCHANGED calcOthers

CallReturn ==
    /\ calc # NoCall
    /\ calc' = NoCall
    /\ UNCHANGED overflow_checks
    /\ UNCHANGED calcOthers

(***************************************************************************)
(* Specifications.                                                         *)
(***************************************************************************)
TileInit ==
    /\ overflow_checks \in BOOLEAN
    /\ tile \in TileInputs
    /\ tile2 \in TileInputs
    /\ idx = NoResult
    /\ idx2 = NoResult
    /\ StoreIdle
    /\ IndexEmpty
    /\ IngestIdle
    /\ ServeIdle
    /\ CalcIdle
    /\ GpuIdle

TileNext == ComputeIndex

SpecTile == TileInit /\ [][TileNext]_vars

\* any interleaving of writes and reads on one handle
StoreInit ==
    /\ overflow_checks = FALSE
    /\ TileIdle
    /\ StoreIdle
    /\ IndexEmpty
    /\ IngestIdle
    /\ ServeIdle
    /\ CalcIdle
    /\ GpuIdle

StoreNext == StoreWrite \/ StoreWriteFail \/ StoreRead \/ StoreMap \/ StoreView

SpecStore == StoreInit /\ [][StoreNext]_vars

\* the file is written, then mapped, then read
AppendInit ==
    /\ overflow_checks = FALSE
    /\ TileIdle
    /\ StoreIdle
    /\ IndexEmpty
    /\ IngestIdle
    /\ ServeIdle
    /\ CalcIdle
    /\ GpuIdle

AppendNext ==
    StoreWrite \/ StoreWriteFail \/ StoreMap \/ StoreView \/ StoreReadMapped

SpecAppend == AppendInit /\ [][AppendNext]_vars

\* any sequence of insert, get and update_max_points on a new TileIndex
IndexInit ==
    /\ overflow_checks \in BOOLEAN
    /\ TileIdle
    /\ StoreIdle
    /\ IndexEmpty
    /\ IngestIdle
    /\ ServeIdle
    /\ CalcIdle
    /\ GpuIdle

IndexNext == IndexInsert \/ IndexGet \/ IndexUpdateMaxPoints

SpecIndex == IndexInit /\ [][IndexNext]_vars

\* load_osm_data over any sequence of ways
IngestInit ==
    /\ overflow_checks \in BOOLEAN
    /\ TileIdle
    /\ StoreIdle
    /\ IndexEmpty
    /\ IngestIdle
    /\ ServeIdle
    /\ CalcIdle
    /\ GpuIdle

IngestNext == IngestWay \/ IngestWayWriteFails

SpecIngest == IngestInit /\ [][IngestNext]_vars

\* the server after main has loaded a dataset and mapped the store
ServeInit ==
    /\ overflow_checks \in BOOLEAN
    /\ TileIdle
    /\ \E ws \in ServeDatasets :
        \E st \in {load_osm_data(ws, 1, LoadStart, overflow_checks)} :
            /\ file = st.file
            /\ pos = st.pos
            /\ mapped = st.file
            /\ tiles = st.tiles
            /\ max_points = st.max_points
            /\ inserted = st.log
            /\ ways = st.ways
            /\ updates = UpdatesOf(st.ways)
    /\ calls = <<>>
    /\ ret = NoRet
    /\ lookup = NoLookup
    /\ ServeIdle
    /\ CalcIdle
    /\ GpuIdle

ServeNext == HandleTileRequest

SpecServe == ServeInit /\ [][ServeNext]_vars

AncestryInit ==
    /\ overflow_checks \in BOOLEAN
    /\ TileIdle
    /\ StoreIdle
    /\ IndexEmpty
    /\ IngestIdle
    /\ ServeIdle
    /\ CalcIdle
    /\ GpuIdle

AncestryNext ==
    \/ CallAncestry
    \/ CallReturn

SpecAncestry == AncestryInit /\ [][AncestryNext]_vars

\* the BoundingBox functions called on their own
BoxesInit ==
    /\ overflow_checks \in BOOLEAN
    /\ TileIdle
    /\ StoreIdle
    /\ IndexEmpty
    /\ IngestIdle
    /\ ServeIdle
    /\ CalcIdle
    /\ GpuIdle

BoxesNext ==
    \/ CallOverlaps
    \/ CallContains
    \/ CallFromPoints
    \/ CallReturn

SpecBoxes == BoxesInit /\ [][BoxesNext]_vars

\* one renderer instance from construction to drop
InstanceInit ==
    /\ overflow_checks \in BOOLEAN
    /\ TileIdle
    /\ StoreIdle
    /\ IndexEmpty
    /\ IngestIdle
    /\ ServeIdle
    /\ CalcIdle
    /\ GpuIdle

InstanceNext ==
    \/ InstanceNew
    \/ InstanceRenderTile
    \/ InstanceDrop

SpecInstance == InstanceInit /\ [][InstanceNext]_vars

\* one renderer instance on which no render_tile call meets a device failure
PoolInit ==
    /\ overflow_checks \in BOOLEAN
    /\ TileIdle
    /\ StoreIdle
    /\ IndexEmpty
    /\ IngestIdle
    /\ ServeIdle
    /\ CalcIdle
    /\ GpuIdle

PoolNext ==
    \/ InstanceNew
    \/ InstanceRenderTileNoFault
    \/ InstanceDrop

SpecPool == PoolInit /\ [][PoolNext]_vars

\* build_vertex_buffer called on its own
VerticesInit ==
    /\ overflow_checks \in BOOLEAN
    /\ TileIdle
    /\ StoreIdle
    /\ IndexEmpty
    /\ IngestIdle
    /\ ServeIdle
    /\ CalcIdle
    /\ GpuIdle

VerticesNext ==
    \/ CallBuildVertexBuffer
    \/ CallBuildFrom
    \/ CallReturn

SpecVertices == VerticesInit /\ [][VerticesNext]_vars


(***************************************************************************)
(* The quadtree index in unbounded integers, written from its closed form: *)
(* the sum of 4^k for k < z has a one at each even bit below bit 2z.       *)
(***************************************************************************)
Clamp(n, lo, hi) == IF n < lo THEN lo ELSE IF n > hi THEN hi ELSE n

ExactTotal(z) ==
    [j \in 1..WideLimbs |->
        (4^Clamp(z - (LimbBits \div 2) * (j - 1), 0, LimbBits \div 2) - 1) \div 3]

ExactIndex(t) ==
    AddWrap(AddWrap(ExactTotal(t.z), ShlWrap(ToLimbs(t.y, WideLimbs), t.z)),
            ToLimbs(t.x, WideLimbs))

\* the next valid tile in index order
Succ(t) ==
    IF t.x + 1 < 2^t.z THEN Tile(t.x + 1, t.y, t.z)
    ELSE IF t.y + 1 < 2^t.z THEN Tile(0, t.y + 1, t.z)
    ELSE Tile(0, 0, t.z + 1)

ReturnsInt(r, n) == r.ok /\ r.val = ToLimbs(n, U64Limbs)

\* C1: for every valid tile, Tile::index returns
\* (sum of 4^k for k < z) + y*2^z + x; index(0,0,0)=0, index(0,0,1)=1,
\* index(1,0,1)=2, index(0,1,1)=3, index(1,1,1)=4, index(0,0,2)=5.
C1_IndexFormula ==
    (idx # NoResult /\ ValidTile(tile)) =>
        /\ idx.ok
        /\ Extend(idx.val, WideLimbs) = ExactIndex(tile)
        /\ tile = Tile(0, 0, 0) => ReturnsInt(idx, 0)
        /\ tile = Tile(0, 0, 1) => ReturnsInt(idx, 1)
        /\ tile = Tile(1, 0, 1) => ReturnsInt(idx, 2)
        /\ tile = Tile(0, 1, 1) => ReturnsInt(idx, 3)
        /\ tile = Tile(1, 1, 1) => ReturnsInt(idx, 4)
        /\ tile = Tile(0, 0, 2) => ReturnsInt(idx, 5)

\* C2: over the valid tiles Tile::index is a bijection onto a dense range:
\* different tiles get different indices, the successor of a tile in
\* (z, y, x) order gets the next index starting from 0 (no index is
\* skipped), and a tile of a lower zoom has the smaller index.
C2_Bijection ==
    (idx # NoResult /\ ValidTile(tile) /\ ValidTile(tile2)) =>
        /\ idx.ok /\ idx2.ok
        /\ tile # tile2 => idx.val # idx2.val
        /\ tile.z < tile2.z => Less(idx.val, idx2.val)
        /\ tile = Tile(0, 0, 0) => idx.val = Zero(U64Limbs)
        /\ tile2 = Succ(tile) =>
                idx2.val = AddWrap(idx.val, ToLimbs(1, U64Limbs))

(***************************************************************************)
(* Object store: round trip, offsets, append-only, zero-copy view.         *)
(***************************************************************************)
Written(c) == calls[c].ok
ObjectSize(c) == map_object_size(Len(calls[c].obj.points))
\* no call after call c started inside or before the object of call c
NotOverwritten(c) ==
    \A d \in (c + 1)..Len(calls) : calls[d].start >= calls[c].end

C4_WriteOffsets ==
    \A k \in 1..Len(calls) :
        Written(k) =>
            /\ calls[k].off = calls[k].start
            /\ calls[k].end = calls[k].start + 40 + 16 * Len(calls[k].obj.points)
            /\ ObjectSize(k) = 40 + 16 * Len(calls[k].obj.points)
            /\ SubSeq(file, calls[k].off + 1, calls[k].off + ObjectSize(k))
                   = ObjectBytes(calls[k].obj)
            /\ (k = 1 => calls[k].off = 0)
            /\ (k < Len(calls) /\ Written(k + 1)) =>
                   calls[k + 1].off = calls[k].off + ObjectSize(k)
            /\ \A j \in 1..(k - 1) : Written(j) => calls[j].off < calls[k].off

C4_Witness ==
    /\ Len(calls) = 3
    /\ \A k \in 1..3 : Written(k)
    /\ Len(calls[1].obj.points) = 1
    /\ Len(calls[2].obj.points) = 0
    /\ calls[3].off = 96
    /\ pos = 96 + ObjectSize(3)

C6_ViewAgrees ==
    ret.op = "view" =>
        \A c \in 1..Len(calls) :
            (Written(c) /\ calls[c].off = ret.off) =>
                LET seeking == read_map_object(file, ret.off).ret
                IN  /\ ret.res.ok
                    /\ ret.res.val.bbox = calls[c].obj.bounding_box
                    /\ ret.res.val.points = calls[c].obj.points
                    /\ seeking.ok
                    /\ ret.res.val.bbox = seeking.val.bounding_box
                    /\ ret.res.val.points = seeking.val.points
                    /\ ret.res.val.first = ret.off
                    /\ ret.res.val.last = ret.off + 40 + 16 * Len(ret.res.val.points)
                    /\ ret.res.val.last <= Len(mapped)

C6_Witness ==
    /\ ret.op = "view"
    /\ Len(calls) = 3
    /\ Written(2) /\ Written(3)
    /\ ret.off = calls[2].off
    /\ ret.res.ok
    /\ Len(ret.res.val.points) = 1
    /\ ret.res.val.last < Len(mapped)


(***************************************************************************)
(* TileIndex: insert and get.                                              *)
(***************************************************************************)
\* the offsets of the insert calls made with tile t, in call order
InsertedWith(t) ==
    LET mine == SelectSeq(inserted, LAMBDA e : e.tile = t)
    IN  [i \in 1..Len(mine) |-> mine[i].off]

\* C7: after any sequence of insert calls get(t) returns exactly the offsets
\* inserted with tile t, in insertion order, and None when there are none; an
\* insert under t leaves the list of every other tile and max_points as they
\* were.
C7_InsertGet ==
    [][ /\ lookup' # lookup =>
              lookup'.res = IF InsertedWith(lookup'.tile) = <<>> THEN None
                            ELSE Some(InsertedWith(lookup'.tile))
        /\ inserted' # inserted =>
              /\ max_points' = max_points
              /\ \A u \in IndexTiles \ {inserted'[Len(inserted')].tile} :
                    TileIndex_get(tiles', u, overflow_checks)
                        = TileIndex_get(tiles, u, overflow_checks)
      ]_vars

(***************************************************************************)
(* Ingestion: which tiles a way is indexed under.                          *)
(***************************************************************************)
MajorRoadValues ==
    { "motorway", "trunk", "primary", "secondary", "tertiary" }
        \cup { "motorway_link", "trunk_link", "primary_link" }
        \cup { "secondary_link", "tertiary_link" }

MajorRoad(tags) ==
    \E i \in 1..Len(tags) : tags[i][1] = "highway" /\ tags[i][2] \in MajorRoadValues

Ingested(i) == ways[i].outcome = "indexed"

\* insert was called with tile t and offset o
InsertedUnder(t, o) ==
    \E j \in 1..Len(inserted) : inserted[j].tile = t /\ inserted[j].off = o

\* C8: for every ingested way and every tile T that
\* get_tiles_for_bounding_box returns for its bounding box at zoom 0..=15,
\* the way's offset is inserted under T iff T.z >= 11 or the way is a major
\* road (it has a tag highway with one of the ten listed values); nothing
\* is inserted under a tile of zoom above 15.
C8_IndexingPolicy ==
    /\ \A i \in 1..Len(ways) :
          Ingested(i) =>
              \A ts \in {get_tiles_for_bounding_box(from_points(ways[i].way.points).val, 0, 15)} :
                  \A n \in 1..Len(ts) :
                      InsertedUnder(ts[n], ways[i].off)
                          <=> (ts[n].z >= 11 \/ MajorRoad(ways[i].way.tags))
    /\ \A j \in 1..Len(inserted) :
          /\ inserted[j].tile.z <= 15
          /\ \E i \in 1..Len(ways) : Ingested(i) /\ ways[i].off = inserted[j].off

\* a minor way and then a major road are ingested; the second is indexed at
\* zoom 0 and the first is not
C8_Witness ==
    /\ Len(ways) = 2
    /\ Ingested(1) /\ Ingested(2)
    /\ ~MajorRoad(ways[1].way.tags) /\ MajorRoad(ways[2].way.tags)
    /\ Len(ways[2].way.points) = 2
    /\ InsertedUnder(Tile(0, 0, 0), ways[2].off)
    /\ ~InsertedUnder(Tile(0, 0, 0), ways[1].off)
    /\ \E j \in 1..Len(inserted) : inserted[j].off = ways[1].off /\ inserted[j].tile.z = 11

(***************************************************************************)
(* Tile requests: zoom above 15, and tiles without index entries.          *)
(***************************************************************************)
\* C9: a request for a tile of zoom z > 15 is rendered from the offset list
\* of tile.get_ancestor(15) and is not answered as a tile without data when
\* that ancestor has index entries.
C9_AncestorFallback ==
    (response.called /\ response.tile.z > 15) =>
        \A entries \in {TileIndex_get(tiles, Tile_get_ancestor(response.tile, 15, overflow_checks).val,
                                      overflow_checks)} :
            (entries.ok /\ entries.some) => response.offsets = entries

\* C10: when the index has no entry for the requested tile, render_tile
\* returns Ok with a TILE_SIZE x TILE_SIZE image whose every pixel is opaque
\* white (255,255,255,255), leaves the renderer as it was, and the request
\* is answered 200.
C10_MissingTileBlank ==
    (response.called /\ response.offsets = None) =>
        /\ response.res.ok
        /\ response.res.val.width = TILE_SIZE
        /\ response.res.val.height = TILE_SIZE
        /\ response.res.val.fill = <<255, 255, 255, 255>>
        /\ response.res.val.drawn = 0
        /\ response.after = response.before
        /\ slots[request.worker][response.size].renderer = response.before
        /\ response.status = 200
        /\ response.content_type = "image/png"

\* C10 with the encoder taken into account: the same, except that the
\* request is answered 200 when encode_png succeeds on the white image and
\* 500 when it fails.
C10_MissingTileBlankEncoded ==
    (response.called /\ response.offsets = None) =>
        /\ response.res.ok
        /\ response.res.val.width = TILE_SIZE
        /\ response.res.val.height = TILE_SIZE
        /\ response.res.val.fill = <<255, 255, 255, 255>>
        /\ response.res.val.drawn = 0
        /\ response.after = response.before
        /\ slots[request.worker][response.size].renderer = response.before
        /\ response.status = (IF response.encoding = "ok" THEN 200 ELSE 500)
        /\ response.content_type = (IF response.encoding = "ok" THEN "image/png" ELSE "")

\* a tile without entries is requested from a renderer that has drawn before
C10_Witness ==
    /\ response.called
    /\ response.offsets = None
    /\ response.tile = Tile(0, 0, 15)
    /\ response.before.render_target
    /\ response.before.sets = 1
    /\ response.status = 200

(***************************************************************************)
(* Status mapping of the tile endpoint.                                    *)
(***************************************************************************)
IsNumber(s) ==
    /\ s # <<>>
    /\ \A i \in 1..Len(s) :
          s[i] \in {"0", "1", "2", "3", "4", "5", "6", "7", "8", "9"}

EndsWith(s, suffix) ==
    /\ Len(s) >= Len(suffix)
    /\ SubSeq(s, Len(s) - Len(suffix) + 1, Len(s)) = suffix

\* the row part of a last path segment that ends in .png or @2x.png
RowPart(s) ==
    IF EndsWith(s, <<"@", "2", "x", ".", "p", "n", "g">>)
    THEN SubSeq(s, 1, Len(s) - 7)
    ELSE SubSeq(s, 1, Len(s) - 4)

Malformed(s) == ~EndsWith(s, <<".", "p", "n", "g">>) \/ ~IsNumber(RowPart(s))

\* the request met a failure of construction, of render_tile or of encoding
Failed ==
    \/ response.construction \in {"err", "panic"}
    \/ response.called /\ ~response.res.ok
    \/ response.encoding = "err"

\* C11: a last path segment that is non-numeric or lacks the .png suffix is
\* answered 400 and reaches no renderer; a failure of renderer construction,
\* of render_tile or of PNG encoding is answered 500; every other request is
\* answered 200 with Content-Type image/png.
C11_StatusMapping ==
    served > 0 =>
        /\ Malformed(request.y_png) =>
              /\ response.status = 400
              /\ response.construction = "none"
              /\ ~response.called
        /\ (~Malformed(request.y_png) /\ Failed) => response.status = 500
        /\ (~Malformed(request.y_png) /\ ~Failed) =>
              /\ response.status = 200
              /\ response.content_type = "image/png"

(***************************************************************************)
(* Errors of renderer construction.                                        *)
(***************************************************************************)
\* C12: every failure during renderer construction makes VulkanRenderer::new
\* return Err(VulkanError): construction does not panic, leaves no renderer
\* in the slot, and the handler answers the request 500.
C12_ConstructionErrors ==
    (served > 0 /\ response.construction \in {"err", "panic"}) =>
        /\ response.construction = "err"
        /\ response.status = 500
        /\ ~response.called
        /\ ~slots[request.worker][response.size].present
        /\ ~slots[request.worker][response.size].poisoned

(***************************************************************************)
(* Write errors during ingestion.                                          *)
(***************************************************************************)
\* C13: an I/O error while writing a way's object is propagated: ingestion
\* stops at that way, and load_osm_data returns Err, so that no index built
\* over a partly written store is returned.
C13_WriteErrorsPropagate ==
    \A i \in 1..Len(ways) :
        ways[i].outcome = "write failed" =>
            /\ ~load_osm_data_result([tiles |-> tiles, max_points |-> max_points,
                                       ways |-> ways]).ok
            /\ i = Len(ways)

(***************************************************************************)
(* Per-tile failures.                                                      *)
(***************************************************************************)
\* the last request ran render_tile and got Err(VulkanError)
RenderFailed == served > 0 /\ response.called /\ response.res = VulkanErr

\* the handler's response to the request `path`, were it the next one run by
\* the worker of the last request and did nothing fail in it
NextResponse(path) ==
    handle_tile_request(slots[request.worker], path.z, path.x, path.y_png, tiles,
                        max_points, mapped, overflow_checks, "none").resp

SlotRequest == served > 0 /\ response.status # 400

\* C15: per worker thread and tile size at most one renderer is ever
\* constructed; a request that finds a renderer in its thread's slot is
\* rendered by that renderer; a request touches no slot of another thread;
\* when construction fails the slot stays empty and the request is answered
\* 500.
C15_RendererOwnership ==
    /\ [](\A i, j \in 1..Len(constructed) :
              constructed[i] = constructed[j] => i = j)
    /\ []((SlotRequest /\ response.construction \in {"err", "panic"}) =>
              /\ response.status = 500
              /\ slots[request.worker][response.size] = EmptySlot)
    /\ [][(SlotRequest' /\ slots[request'.worker][response'.size].present) =>
              /\ response'.construction = "none"
              /\ response'.called
              /\ response'.before = slots[request'.worker][response'.size].renderer
              /\ constructed' = constructed]_vars
    /\ [][SlotRequest' =>
              /\ \A w \in Workers \ {request'.worker} : slots'[w] = slots[w]
              /\ response'.construction = "ok" =>
                    /\ ~slots[request'.worker][response'.size].present
                    /\ constructed' =
                          Append(constructed, [worker |-> request'.worker,
                                               size |-> response'.size])]_vars

(***************************************************************************)
(* Tile ancestry.                                                          *)
(***************************************************************************)
\* x >> n on unbounded integers, for x below 2^31
ShiftRight(x, n) == IF n >= 31 THEN 0 ELSE x \div 2^n

\* get_parent applied n times
RECURSIVE ParentTimes(_, _)
ParentTimes(t, n) ==
    IF n = 0 THEN Some(t)
    ELSE IF ~Tile_get_parent(t).some THEN None
    ELSE ParentTimes(Tile_get_parent(t).val, n - 1)

\* C16: get_ancestor(target_z) is absent when target_z > z, the tile itself
\* when target_z = z, and (x >> (z - target_z), y >> (z - target_z), target_z)
\* otherwise; get_parent is absent exactly at z = 0 and otherwise is
\* (x div 2, y div 2, z - 1) = get_ancestor(z - 1); so get_ancestor(target_z)
\* is get_parent applied z - target_z times.
C16_Ancestry ==
    calc.op = "ancestry" =>
        /\ calc.target_z > calc.tile.z => calc.ancestor = None
        /\ calc.target_z = calc.tile.z => calc.ancestor = Some(calc.tile)
        /\ calc.tile.z = 0 <=> calc.parent = None
        /\ calc.tile.z > 0 =>
              /\ calc.parent = Some(Tile(calc.tile.x \div 2, calc.tile.y \div 2,
                                         calc.tile.z - 1))
              /\ calc.parent = Tile_get_ancestor(calc.tile, calc.tile.z - 1,
                                                 overflow_checks)
        /\ calc.target_z < calc.tile.z =>
              /\ calc.ancestor =
                    Some(Tile(ShiftRight(calc.tile.x, calc.tile.z - calc.target_z),
                              ShiftRight(calc.tile.y, calc.tile.z - calc.target_z),
                              calc.target_z))
              /\ calc.ancestor = ParentTimes(calc.tile, calc.tile.z - calc.target_z)

(***************************************************************************)
(* TileIndex.max_points.                                                   *)
(***************************************************************************)
RECURSIVE SeqMax(_)
\* max(0, n1, ..., nk)
SeqMax(ns) ==
    IF ns = <<>> THEN 0
    ELSE IF ns[Len(ns)] > SeqMax(SubSeq(ns, 1, Len(ns) - 1))
    THEN ns[Len(ns)]
    ELSE SeqMax(SubSeq(ns, 1, Len(ns) - 1))

\* C17: max_points starts at 0 and, after the calls update_max_points(n1),
\* ..., update_max_points(nk), equals max(0, n1, ..., nk); it never
\* decreases, and neither insert nor get changes it.
C17_RunningMaximum ==
    /\ [](max_points = SeqMax(updates))
    /\ [][max_points' >= max_points]_vars
    /\ [][(inserted' # inserted \/ lookup' # lookup) => max_points' = max_points]_vars

\* a smaller number was reported after a larger one, and an insert and a get
\* were made
C17_Witness ==
    /\ Len(updates) = 2
    /\ updates[2] < updates[1]
    /\ max_points = updates[1]
    /\ inserted # <<>>
    /\ lookup # NoLookup

(***************************************************************************)
(* BoundingBox (data/types.rs).                                            *)
(***************************************************************************)
WellFormed(b) == b.min.lon <= b.max.lon /\ b.min.lat <= b.max.lat

\* the boxes meet along a side or at a corner and nowhere else
Touching(a, b) ==
    /\ WellFormed(a) /\ WellFormed(b)
    /\ \/ /\ a.max.lon = b.min.lon \/ b.max.lon = a.min.lon
          /\ a.min.lat <= b.max.lat /\ b.min.lat <= a.max.lat
       \/ /\ a.max.lat = b.min.lat \/ b.max.lat = a.min.lat
          /\ a.min.lon <= b.max.lon /\ b.min.lon <= a.max.lon

SetMin(S) == CHOOSE m \in S : \A n \in S : m <= n
SetMax(S) == CHOOSE m \in S : \A n \in S : m >= n

\* C19: from_points returns absent for the empty list and, for a non-empty
\* list, the box whose min and max are the componentwise minimum and maximum
\* of the points: min <= max on both axes, the box contains every input
\* point, and for a single point min = max.
C19_FromPoints ==
    calc.op = "from_points" =>
        /\ calc.points = <<>> => calc.result = None
        /\ calc.points # <<>> =>
              /\ calc.result.some
              /\ WellFormed(calc.result.val)
              /\ calc.result.val.min =
                    Point(SetMin({ calc.points[i].lon : i \in 1..Len(calc.points) }),
                          SetMin({ calc.points[i].lat : i \in 1..Len(calc.points) }))
              /\ calc.result.val.max =
                    Point(SetMax({ calc.points[i].lon : i \in 1..Len(calc.points) }),
                          SetMax({ calc.points[i].lat : i \in 1..Len(calc.points) }))
              /\ \A i \in 1..Len(calc.points) :
                    contains(calc.result.val, calc.points[i])
              /\ Len(calc.points) = 1 =>
                    /\ calc.result.val.min = calc.points[1]
                    /\ calc.result.val.max = calc.points[1]

\* three points none of which is a corner of the box returned
C19_Witness ==
    /\ calc.op = "from_points"
    /\ Len(calc.points) = 3
    /\ calc.result.some
    /\ \A i \in 1..3 : calc.points[i] \notin {calc.result.val.min, calc.result.val.max}

(***************************************************************************)
(* Vertex emission (renderer/renderer.rs, build_vertex_buffer).            *)
(***************************************************************************)
\* the object read at an offset takes part in the tile
Contributes(view, t) ==
    /\ overlaps(get_bounding_box(t), OrdBox(view.bbox))
    /\ Len(view.points) >= 2

\* the segments of one object: the pairs (point[i-1], point[i]) in point
\* order, each as four floats
RECURSIVE SegmentsOf(_, _)
SegmentsOf(points, i) ==
    IF i > Len(points) THEN <<>>
    ELSE <<as_f32(points[i - 1].lon), as_f32(points[i - 1].lat),
           as_f32(points[i].lon), as_f32(points[i].lat)>>
             \o SegmentsOf(points, i + 1)

\* the segments of the contributing objects, in the order of the offsets
RECURSIVE Emission(_, _)
Emission(views, t) ==
    IF views = <<>> THEN <<>>
    ELSE (IF Contributes(Head(views).val, t)
          THEN SegmentsOf(Head(views).val.points, 2) ELSE <<>>)
             \o Emission(Tail(views), t)

RECURSIVE VertexSum(_, _)
VertexSum(views, t) ==
    IF views = <<>> THEN 0
    ELSE (IF Contributes(Head(views).val, t)
          THEN 2 * (Len(Head(views).val.points) - 1) ELSE 0)
             + VertexSum(Tail(views), t)

\* C20: going through the offsets in index order, an object whose bounding
\* box does not overlap the tile's, or that has fewer than 2 points,
\* contributes no vertex; every other object with n points contributes its
\* n-1 segments (point[i-1], point[i]) in point order; while capacity is
\* not exhausted the returned vertex count is the sum of 2*(n-1) over the
\* contributing objects.
C20_VertexEmission ==
    (calc.op = "build_vertex_buffer" /\ ~calc.result.full) =>
        /\ ~calc.result.ub
        /\ calc.result.vertices = Emission(calc.views, calc.tile)
        /\ calc.result.vertex_count = VertexSum(calc.views, calc.tile)
        /\ 2 * calc.result.vertex_count = Len(calc.result.vertices)

\* an object outside the tile, then one with three points that contributes
\* two segments
C20_Witness ==
    /\ calc.op = "build_vertex_buffer"
    /\ Len(calc.views) = 2
    /\ ~overlaps(get_bounding_box(calc.tile), OrdBox(calc.views[1].val.bbox))
    /\ Len(calc.views[1].val.points) >= 2
    /\ Contributes(calc.views[2].val, calc.tile)
    /\ Len(calc.views[2].val.points) = 3
    /\ calc.result.vertex_count = 4

(***************************************************************************)
(* Vertex-buffer capacity.                                                 *)
(***************************************************************************)
\* C21: build_vertex_buffer never writes at a float index >=
\* vertex_buffer_capacity; once a segment is rejected because fewer than 4
\* floats remain, no segment of the same object or of a later object of the
\* tile is written (what is written is the segments that fit, in order);
\* the call returns Ok and the count returned is the number of vertices
\* written.
C21_Capacity ==
    calc.op = "build_from" =>
        /\ \A k \in 1..Len(calc.result.writes) :
              /\ calc.result.writes[k] < vertex_buffer_capacity
              /\ calc.result.writes[k] = FilledTo(calc.room).index + k - 1
        /\ calc.result.full <=> Len(Emission(calc.views, calc.tile)) > 4 * calc.room
        /\ calc.result.vertices =
              SubSeq(Emission(calc.views, calc.tile), 1,
                     IF Len(Emission(calc.views, calc.tile)) > 4 * calc.room
                     THEN 4 * calc.room ELSE Len(Emission(calc.views, calc.tile)))
        /\ ~calc.result.ub
        /\ 2 * (calc.result.vertex_count - FilledTo(calc.room).vertex_count)
              = Len(calc.result.vertices)
        /\ 2 * calc.result.vertex_count = calc.result.index

\* the first object's second segment is rejected and a later object that
\* overlaps the tile writes nothing
C21_Witness ==
    /\ calc.op = "build_from"
    /\ calc.room = 1
    /\ Len(calc.views) = 2
    /\ Contributes(calc.views[1].val, calc.tile)
    /\ Len(calc.views[1].val.points) = 3
    /\ Contributes(calc.views[2].val, calc.tile)
    /\ calc.result.full
    /\ Len(calc.result.vertices) = 4

(***************************************************************************)
(* The renderer instance (renderer/renderer.rs).                           *)
(***************************************************************************)
\* the last call was render_tile
Rendered == gpu.call.op = "render_tile"

\* the number of vertices build_vertex_buffer emitted in the last call, 0
\* when the tile has no index entry
Emitted == GpuLookups[overflow_checks][gpu.call.tile].built.vertex_count

HasEntries == gpu.call.offsets.ok /\ gpu.call.offsets.some

Ops(events) == [k \in 1..Len(events) |-> events[k].op]

\* C22: when the tile has index entries but no vertex is emitted,
\* render_tile returns an all-white tile and makes no call to the GPU: it
\* creates no resource, allocates no uniform buffer or descriptor set,
\* records and submits nothing and waits on no fence.
C22_BlankWithoutGpu ==
    (Rendered /\ HasEntries /\ Emitted = 0) =>
        /\ gpu.call.res = Ok(from_pixel(TILE_SIZE, TILE_SIZE, White))
        /\ gpu.call.events = <<>>
        /\ gpu.renderer = gpu.call.before

\* the calls of the GPU cycle among the calls of a render_tile call
CycleOf(events) ==
    SelectSeq(Ops(events),
              LAMBDA op : op \in { "reset_fence", "reset_command_buffer",
                                   "begin_command_buffer", "begin_render_pass",
                                   "bind_pipeline", "bind_vertex_buffer",
                                   "bind_descriptor_set", "draw", "end_render_pass",
                                   "copy_image_to_buffer", "end_command_buffer",
                                   "submit", "wait", "read_staging_buffer" })

CycleOrder ==
    << "reset_fence", "reset_command_buffer", "begin_command_buffer",
       "begin_render_pass", "bind_pipeline", "bind_vertex_buffer",
       "bind_descriptor_set", "draw", "end_render_pass", "copy_image_to_buffer",
       "end_command_buffer", "submit", "wait", "read_staging_buffer" >>

\* the render pass clears to opaque white and the one draw is of all the
\* emitted vertices
CycleArguments(events) ==
    \A k \in 1..Len(events) :
        /\ events[k].op = "begin_render_pass" => events[k].clear = <<1, 1, 1, 1>>
        /\ events[k].op = "draw" => events[k].n = Emitted

\* C23: in every render_tile call that emits vertices the calls of the GPU
\* cycle are made in the order fence reset, command-buffer reset, begin
\* recording, begin render pass clearing to opaque white, bind pipeline,
\* bind vertex buffer, bind descriptor set, one draw of all emitted
\* vertices, end render pass, copy to the staging buffer, end recording,
\* submit, wait, read the staging buffer (all of them when the call
\* returns a tile, the first of them when it fails); no call starts a
\* cycle while the fence of an earlier submission has not signalled, and
\* the staging buffer is read only after the wait returned.
C23_CycleOrder ==
    (Rendered /\ Emitted > 0) =>
        /\ Len(CycleOf(gpu.call.events)) <= Len(CycleOrder)
        /\ CycleOf(gpu.call.events)
             = SubSeq(CycleOrder, 1, Len(CycleOf(gpu.call.events)))
        /\ CycleArguments(gpu.call.events)
        /\ gpu.call.res.ok => CycleOf(gpu.call.events) = CycleOrder
        /\ ~gpu.call.before.pending
        /\ gpu.call.res # FenceInUse

Dropped == gpu.call.op = "drop"

\* the stages of the teardown, in the order they are to happen
TeardownStages ==
    << {"device_wait_idle"},
       {"destroy_framebuffer", "destroy_image_view", "destroy_image",
        "destroy_staging_buffer", "free_image_memory", "free_staging_memory"},
       {"destroy_vertex_buffer", "free_vertex_memory"},
       {"destroy_fence", "destroy_descriptor_pool", "destroy_pipeline",
        "destroy_pipeline_layout", "destroy_descriptor_set_layout",
        "destroy_render_pass"},
       {"drop_allocator"},
       {"destroy_command_pool"},
       {"destroy_device"},
       {"destroy_instance"} >>

StageOf(op) == CHOOSE k \in 1..Len(TeardownStages) : op \in TeardownStages[k]

\* C24: when a renderer is dropped the device is idle-waited first, then
\* the render target's objects are destroyed and their memory freed (when
\* there is a render target), then the vertex buffer and its memory, then
\* fence, descriptor pool, pipeline, pipeline layout, descriptor-set layout
\* and render pass, then the allocator, then the command pool and the
\* device, then the instance; every one of them is destroyed, none twice
\* and none after the device or allocator it depends on.
C24_TeardownOrder ==
    Dropped =>
        LET ops == Ops(gpu.call.events)
        IN  /\ \A k \in 1..Len(ops) : \E g \in 1..Len(TeardownStages) :
                  ops[k] \in TeardownStages[g]
            /\ \A j, k \in 1..Len(ops) :
                  j < k => /\ ops[j] # ops[k]
                           /\ StageOf(ops[j]) <= StageOf(ops[k])
            /\ \A g \in 1..Len(TeardownStages) : \A op \in TeardownStages[g] :
                  (\E k \in 1..Len(ops) : ops[k] = op)
                      <=> (g = 2 => gpu.call.before.render_target)

C24_Witness ==
    /\ Dropped
    /\ gpu.call.before.render_target
    /\ gpu.call.before.sets > 0

\* how many of the calls create the render target's colour image
ImagesCreated(events) ==
    Len(SelectSeq(Ops(events), LAMBDA op : op = "create_image"))

\* C25: a renderer starts without a render target; over a sequence of
\* render_tile calls the render target's image, view, framebuffer and
\* staging buffer are created at most once, by the first call that needs
\* them; a call that finds the render target makes no creation call and
\* keeps it; no render_tile call destroys the render target or the vertex
\* buffer.
C25_RenderTargetOnce ==
    /\ gpu.call.op = "new" => ~gpu.renderer.render_target
    /\ gpu.phase \in {"live", "undefined"} => gpu.renderer.created <= 1
    /\ Rendered =>
        /\ gpu.call.before.render_target =>
              /\ gpu.renderer.render_target
              /\ \A k \in 1..Len(gpu.call.events) :
                    gpu.call.events[k].op \notin
                        { "create_image", "allocate_image_memory", "create_image_view",
                          "create_framebuffer", "create_staging_buffer",
                          "allocate_staging_memory" }
        /\ gpu.renderer.created = gpu.call.before.created
                                    + ImagesCreated(gpu.call.events)
        /\ \A k \in 1..Len(gpu.call.events) :
              gpu.call.events[k].op \notin
                  (TeardownStages[2] \cup TeardownStages[3])

CountOf(events, op) == Len(SelectSeq(Ops(events), LAMBDA o : o = op))

\* C26: every uniform buffer a render_tile call creates is destroyed and
\* its allocation freed before the call returns, whether it returns Ok or
\* Err, so that between calls the instance holds no live uniform buffer.
C26_UniformReleased ==
    /\ Rendered =>
        /\ CountOf(gpu.call.events, "destroy_uniform_buffer")
             = CountOf(gpu.call.events, "create_uniform_buffer")
        /\ CountOf(gpu.call.events, "free_uniform_memory")
             = CountOf(gpu.call.events, "allocate_uniform_memory")
    /\ gpu.renderer.uniforms = 0

\* the last call rendered a tile that emits vertices
NonBlank == Rendered /\ HasEntries /\ Emitted > 0

\* C27: over any number of render_tile calls on one instance the
\* descriptor sets allocated from the pool and not freed never exceed
\* max_sets, the allocation of the per-tile descriptor set never fails
\* for want of room in the pool, and every non-blank tile renders as the
\* first does: it returns the tile with its vertices drawn.
C27_PoolNeverExhausted ==
    /\ gpu.renderer.sets <= max_sets
    /\ NonBlank =>
        /\ gpu.call.before.sets < max_sets
        /\ gpu.call.res = Ok([width |-> TILE_SIZE, height |-> TILE_SIZE,
                              fill |-> White, drawn |-> Emitted])

\* the objects of a renderer: the call that creates each and the call
\* that destroys it
ConstructionObjects ==
    { <<"create_instance", "destroy_instance">>,
      <<"create_device", "destroy_device">>,
      <<"create_command_pool", "destroy_command_pool">>,
      <<"create_allocator", "drop_allocator">>,
      <<"create_descriptor_set_layout", "destroy_descriptor_set_layout">>,
      <<"create_render_pass", "destroy_render_pass">>,
      <<"create_pipeline_layout", "destroy_pipeline_layout">>,
      <<"create_pipeline", "destroy_pipeline">>,
      <<"create_descriptor_pool", "destroy_descriptor_pool">>,
      <<"create_fence", "destroy_fence">> }

ConstructionFailed == gpu.call.op = "new" /\ gpu.phase \in {"failed", "panicked"}

\* C28: when VulkanContext::new or VulkanRenderer::new fails at any step,
\* every object the earlier steps created is destroyed before the function
\* returns, the device after everything created from it and the instance
\* after the device.
C28_FailedConstructionCleansUp ==
    ConstructionFailed =>
        LET ops == Ops(gpu.call.events)
            At(op) == IndexOf(ops, op)
            Has(op) == At(op) <= Len(ops)
        IN  \A o \in ConstructionObjects :
              Has(o[1]) =>
                /\ Has(o[2])
                /\ At(o[1]) < At(o[2])
                /\ o[2] # "destroy_instance" => At(o[2]) < At("destroy_instance")
                /\ o[2] \notin {"destroy_instance", "destroy_device"}
                      => At(o[2]) < At("destroy_device")

\* C29: for every valid tile of zoom 0..20 no intermediate value of
\* Tile::index leaves its machine width (y*2^z + x in u32, the running
\* total of 4^k and the final sum in u64), so that the call returns, in
\* both build profiles, the value of the formula over the integers.
C29_NoOverflow ==
    (idx # NoResult /\ ValidTile(tile) /\ tile.z <= 20) =>
        /\ ~LevelPos(tile).ovf
        /\ ~TotalLoop(tile.z, tile.z).ovf
        /\ ~IndexOverflows(IndexParts(tile))
        /\ idx = Ok(IndexWrapped(IndexParts(tile)))
        /\ Extend(idx.val, WideLimbs) = ExactIndex(tile)

\* C30: for every tile a request can name, in range or not, TileIndex::get
\* returns only offsets that were inserted with exactly that tile, and
\* None when nothing was; a tile whose x or y is 2^z or more never gets
\* the list of another tile.
C30_LookupIsolation ==
    (lookup.op = "get" /\ lookup.res.ok) =>
        /\ lookup.res.some =>
              \A k \in 1..Len(lookup.res.val) :
                  \E j \in 1..Len(inserted) :
                      /\ inserted[j].tile = lookup.tile
                      /\ inserted[j].off = lookup.res.val[k]
        /\ InsertedWith(lookup.tile) = <<>> => ~lookup.res.some

=============================================================================
